---------------------------- MODULE Spec2Model ----------------------------
(***************************************************************************)
(* Model of the client-side query code of the NVCA funding database:       *)
(* grants (app.js), challenges, the SBIR manager and the NOFAs manager.    *)
(*                                                                         *)
(* Representation of JavaScript values:                                    *)
(*   - a string is a sequence of one-character strings, "" is << >>;       *)
(*   - a record field holds an option: {} when the field is null or        *)
(*     absent, {v} when it is present with value v;                        *)
(*   - the value of a <select> with fixed options is a token such as       *)
(*     "under-100k", the empty token "" being the "All" option;            *)
(*   - an array of records of a loaded collection is a sequence; a         *)
(*     filtered array holds references to the same objects and is kept as  *)
(*     the sequence of their positions in the loaded collection.           *)
(***************************************************************************)
EXTENDS Integers, Sequences, FiniteSets, TLC

-----------------------------------------------------------------------------
(* Bounds of the model *)

\* the user keeps at most this many inputs (search box, filters) non-empty
MaxActive == 2

\* the longest loaded collection fills this many pages
MaxPages == 2

\* the most controls that hold a value when an export is requested
MaxExportActive == 0

-----------------------------------------------------------------------------
(* JavaScript strings and options *)

UpperChars == <<"A","B","C","D","E","F","G","H","I","J","K","L","M",
                "N","O","P","Q","R","S","T","U","V","W","X","Y","Z">>

LowerChars == <<"a","b","c","d","e","f","g","h","i","j","k","l","m",
                "n","o","p","q","r","s","t","u","v","w","x","y","z">>

\* the lower-case letter of each upper-case letter
LowerOf ==
    [c \in {UpperChars[i] : i \in DOMAIN UpperChars} |->
        LowerChars[CHOOSE i \in DOMAIN UpperChars : UpperChars[i] = c]]

toLowerChar(c) == IF c \in DOMAIN LowerOf THEN LowerOf[c] ELSE c

\* String.prototype.toLowerCase
toLowerCase(s) == [i \in 1..Len(s) |-> toLowerChar(s[i])]

\* String.prototype.includes
includes(s, t) ==
    \E i \in 0..(Len(s) - Len(t)) : SubSeq(s, i + 1, i + Len(t)) = t

RECURSIVE trimStart(_)
trimStart(s) ==
    IF s # << >> /\ Head(s) = " " THEN trimStart(Tail(s)) ELSE s

RECURSIVE trimEnd(_)
trimEnd(s) ==
    IF s # << >> /\ s[Len(s)] = " " THEN trimEnd(SubSeq(s, 1, Len(s) - 1)) ELSE s

\* String.prototype.trim
trim(s) == trimEnd(trimStart(s))

\* an option: {} for null/undefined, {v} for a present value
Has(o) == o # {}
Val(o) == CHOOSE v \in o : TRUE

\* JavaScript truthiness of an optional string, number, boolean
TruthyStr(o)  == Has(o) /\ Val(o) # << >>
TruthyNum(o)  == Has(o) /\ Val(o) # 0
TruthyBool(o) == o = {TRUE}

\* record[name] as JavaScript reads it: undefined for a name the record lacks
Get(record, name) == IF name \in DOMAIN record THEN record[name] ELSE {}

\* the positions of seq, in order, whose element passes Test
\* (Array.prototype.filter over an array of references)
FilterIdx(seq, idx, Test(_)) == SelectSeq(idx, LAMBDA i : Test(seq[i]))

AllIdx(seq) == [i \in 1..Len(seq) |-> i]

Max(a, b) == IF a >= b THEN a ELSE b
Min(a, b) == IF a <= b THEN a ELSE b

\* Math.ceil(n / d) for d > 0 and any integer n
Ceil(n, d) == -((-n) \div d)

\* position of a character in UTF-16 order, for the characters the data uses
CodeOrder == <<" ", "-", ".", "0","1","2","3","4","5","6","7","8","9">>
             \o UpperChars \o LowerChars

CodeOf ==
    [c \in {CodeOrder[i] : i \in DOMAIN CodeOrder} |->
        CHOOSE i \in DOMAIN CodeOrder : CodeOrder[i] = c]

CharCode(c) == CodeOf[c]

\* the relational comparison s < t of two strings (by code units)
RECURSIVE StrLess(_, _)
StrLess(s, t) ==
    IF t = << >> THEN FALSE
    ELSE IF s = << >> THEN TRUE
    ELSE IF Head(s) = Head(t) THEN StrLess(Tail(s), Tail(t))
    ELSE CharCode(Head(s)) < CharCode(Head(t))

\* Array.prototype.sort with comparator Cmp (negative, zero, positive) on a
\* sequence: insertion of each element after the last one it does not precede,
\* which keeps equal elements in their order (the sort is stable)
StableSort(seq, Cmp(_, _)) ==
    LET Insert(s, x) ==
            LET after == {j \in 1..Len(s) : Cmp(x, s[j]) >= 0}
                p     == IF after = {} THEN 0
                         ELSE CHOOSE j \in after : \A k \in after : k <= j
            IN  SubSeq(s, 1, p) \o <<x>> \o SubSeq(s, p + 1, Len(s))
        sorted[k \in 0..Len(seq)] ==
            IF k = 0 THEN << >> ELSE Insert(sorted[k - 1], seq[k])
    IN  sorted[Len(seq)]

\* array.map(record => record[f]): the field of each record, in order
fieldColumn(data, f) == [i \in DOMAIN data |-> data[i][f]]

\* array.filter(Boolean) over optional strings
filterBoolean(seq) == SelectSeq(seq, TruthyStr)

\* [...new Set(array)]: the first occurrence of each value, in order
RECURSIVE uniqueInOrder(_)
uniqueInOrder(seq) ==
    IF seq = << >> THEN << >>
    ELSE LET front == uniqueInOrder(SubSeq(seq, 1, Len(seq) - 1))
             last  == seq[Len(seq)]
         IN  IF \E k \in DOMAIN front : front[k] = last THEN front
             ELSE Append(front, last)

\* the comparison of Array.prototype.sort() without a comparator: undefined
\* goes last, the other values are compared as strings by code units
defaultCompare(a, b) ==
    IF ~Has(a) THEN (IF Has(b) THEN 1 ELSE 0)
    ELSE IF ~Has(b) THEN -1
    ELSE IF StrLess(Val(a), Val(b)) THEN -1
    ELSE IF StrLess(Val(b), Val(a)) THEN 1 ELSE 0

\* array.sort()
defaultSort(seq) == StableSort(seq, defaultCompare)

-----------------------------------------------------------------------------
(* Dates and the clock *)

\* a date string "YYYY-MM-DD" as Date parses it: the day, counted from
\* 1970-01-01
DateStr(d) == [valid |-> TRUE, day |-> d]

\* '2099-12-31', the date sortTable puts in place of a missing one
FarFuture == 47481

-----------------------------------------------------------------------------
(* Words of the data *)

sCyber  == <<"C","y","b","e","r">>
sCYBER  == <<"C","Y","B","E","R">>
sEnergy == <<"E","n","e","r","g","y">>
sLab    == <<"a","i"," ","l","a","b">>
sNSF    == <<"N","S","F">>
sDOE    == <<"D","O","E">>
sN1     == <<"N","-","1">>
sN2     == <<"N","-","2">>
sSci    == <<"S","c","i">>
sEdu    == <<"E","d","u">>
sOpen   == <<"O","p","e","n">>
sFore   == <<"F","o","r","e">>
sGrant  == <<"G","r","a","n","t">>
sCA     == <<"C","A">>
s47     == <<"4","7",".","0">>
s93     == <<"9","3">>

-----------------------------------------------------------------------------
(* The clock *)

\* the time of day, in hours since 1970-01-01T00:00Z
VARIABLE now

\* 2025-08-11, 09:00Z
ClockChoices == {20311 * 24 + 9}

-----------------------------------------------------------------------------
(* The state of the page *)

VARIABLES
    tabs,             \* the sections the page holds: a script acts only on
                      \* a page that holds its section
    lastEvent,        \* the event whose handler ran last
    \* app.js
    grantsData,       \* the loaded collection
    filteredGrants,   \* positions in grantsData of the matching records, in display order
    currentPage,
    sortColumn,
    sortDirection,
    grantsInputs,     \* values of the search box and of the filter controls
    grantsPager,      \* the pagination buttons as last rendered
    \* challenges
    challengesData,
    filteredChallenges,     \* positions in challengesData, in display order
    currentChallengePage,
    challengeInputs,        \* values of the search box and of the filter controls
    challengePager,         \* the pages the rendered pagination buttons lead to
    challengeAgencySelect,  \* the options of challenge-filter-agency after "All"
    \* SBIRManager: one entry per sub-tab in each record
    sbirData,
    sbirFilteredData,       \* this.filteredData: positions in sbirData[type]
    sbirCurrentPage,        \* this.currentPage
    currentSubTab,
    sbirInputs,
    sbirPager,
    \* NOFAsManager
    nofasData,
    nofasFilteredData,      \* this.filteredData: positions in nofasData
    nofasCurrentPage,       \* this.currentPage
    nofasInputs,
    nofasPager,
    \* the loaders
    loads,            \* the loads of the page's collection the page has started,
                      \* in the order of their start: the fetch each awaits,
                      \* the sources it tried and the source whose data it stored
    \* the authentication module
    hiddenContent,    \* the protected elements that are hidden (or disabled)
    loginScreens,     \* how many elements with id login-screen the document holds
    lastUser          \* what the last identity event carried: "user", "nobody";
                      \* "none" before the first, "no widget" when none can come

authVars == <<hiddenContent, loginScreens, lastUser>>

grantsVars == <<grantsData, filteredGrants, currentPage, sortColumn,
                sortDirection, grantsInputs, grantsPager>>

challengesVars == <<challengesData, filteredChallenges, currentChallengePage,
                    challengeInputs, challengePager, challengeAgencySelect>>

sbirVars == <<sbirData, sbirFilteredData, sbirCurrentPage, currentSubTab,
              sbirInputs, sbirPager>>

nofasVars == <<nofasData, nofasFilteredData, nofasCurrentPage, nofasInputs,
               nofasPager>>

vars == <<now, tabs, lastEvent, grantsVars, challengesVars, sbirVars, nofasVars,
          loads, authVars>>

\* everything that is not the grants table's, the challenges tab's, ...
notGrants     == <<now, tabs, challengesVars, sbirVars, nofasVars, loads, authVars>>
notChallenges == <<now, tabs, grantsVars, sbirVars, nofasVars, loads, authVars>>
notSBIR       == <<now, tabs, grantsVars, challengesVars, nofasVars, loads, authVars>>
notNOFAs      == <<now, tabs, grantsVars, challengesVars, sbirVars, loads, authVars>>

-----------------------------------------------------------------------------
(* Grants: app.js *)

itemsPerPage == 20

\* the kinds of grant record the snapshots are made of
GrantKinds == <<
    [title |-> {sCyber}, agency |-> {sNSF}, description |-> {sLab},
     opportunity_number |-> {sN1}, category |-> {sSci}, status |-> {sOpen},
     funding_instrument |-> {sGrant}, award_ceiling |-> {50000},
     total_funding |-> {}, close_date |-> {DateStr(20315)},
     cost_sharing |-> {TRUE}, cfda_number |-> {s47}],
    [title |-> {sEnergy}, agency |-> {sDOE}, description |-> {},
     opportunity_number |-> {}, category |-> {sSci}, status |-> {sOpen},
     funding_instrument |-> {sCA}, award_ceiling |-> {150000},
     total_funding |-> {900000}, close_date |-> {DateStr(20361)},
     cost_sharing |-> {FALSE}, cfda_number |-> {}],
    [title |-> {}, agency |-> {sNSF}, description |-> {sCYBER},
     opportunity_number |-> {sN2}, category |-> {sEdu}, status |-> {sFore},
     funding_instrument |-> {}, award_ceiling |-> {},
     total_funding |-> {}, close_date |-> {},
     cost_sharing |-> {}, cfda_number |-> {s93}],
    [title |-> {<< >>}, agency |-> {}, description |-> {},
     opportunity_number |-> {}, category |-> {sEdu}, status |-> {sOpen},
     funding_instrument |-> {sGrant}, award_ceiling |-> {0},
     total_funding |-> {}, close_date |-> {DateStr(20311)},
     cost_sharing |-> {FALSE}, cfda_number |-> {}],
    [title |-> {sEnergy}, agency |-> {sDOE}, description |-> {sCyber},
     opportunity_number |-> {}, category |-> {sSci}, status |-> {sOpen},
     funding_instrument |-> {sGrant}, award_ceiling |-> {100000},
     total_funding |-> {}, close_date |-> {DateStr(20453)},
     cost_sharing |-> {TRUE}, cfda_number |-> {s47}],
    [title |-> {sLab}, agency |-> {sDOE}, description |-> {},
     opportunity_number |-> {sN1}, category |-> {sEdu}, status |-> {sFore},
     funding_instrument |-> {sCA}, award_ceiling |-> {10000000},
     total_funding |-> {}, close_date |-> {DateStr(20468)},
     cost_sharing |-> {}, cfda_number |-> {}] >>

\* a snapshot of n records: record i has id i and the fields of kind i (cyclically)
Snapshot(kinds, n) ==
    [i \in 1..n |-> [id |-> i] @@ kinds[((i - 1) % Len(kinds)) + 1]]

\* the length of the longest snapshot: MaxPages pages, the last with one record
LongLen == (MaxPages - 1) * itemsPerPage + 1

GrantSnapshots ==
    {Snapshot(GrantKinds, n) : n \in {Len(GrantKinds), LongLen}}

EmptyGrantsInputs ==
    [search |-> << >>, agency |-> << >>, category |-> << >>, status |-> << >>,
     funding |-> "", instrument |-> << >>, deadline |-> "", costshare |-> "",
     cfda |-> << >>]

\* the distinct present values of a field, the options of a populated <select>
FieldValues(data, f) ==
    {Val(data[i][f]) : i \in {j \in DOMAIN data : TruthyStr(data[j][f])}}

\* the options populateFilters gives the select of field f (agency, category,
\* status), after "All"
grantOptions(data, f) == defaultSort(uniqueInOrder(fieldColumn(data, f)))

FundingRanges == {"under-100k", "100k-500k", "500k-1m", "1m-5m", "5m-10m",
                  "over-10m", "unspecified"}

GrantSearchTerms == {<<"c","y","b">>, <<"N","S","F">>}

\* what the user puts in each control (the empty value aside)
GrantChoices(data, f) ==
    CASE f = "search"     -> GrantSearchTerms
      [] f = "agency"     -> FieldValues(data, "agency")
      [] f = "category"   -> {sEdu}
      [] f = "status"     -> {sFore}
      [] f = "funding"    -> {"under-100k", "over-10m", "unspecified"}
      [] f = "instrument" -> {sCA}
      [] f = "deadline"   -> {"week"}
      [] f = "costshare"  -> {"yes"}
      [] f = "cfda"       -> {<<"4","7">>}

TokenControls == {"funding", "deadline", "costshare"}

EmptyOf(f) == IF f \in TokenControls THEN "" ELSE << >>

\* how many controls hold a non-empty value
ActiveCount(inputs) ==
    Cardinality({f \in DOMAIN inputs : inputs[f] # EmptyOf(f)})

\* matchesSearch with the fields compared as they are written, their case kept:
\* what C4 is to tell from matchesSearch
matchesSearch_CaseKept(grant, term) ==
    \/ TruthyStr(grant.title) /\ includes(Val(grant.title), term)
    \/ TruthyStr(grant.agency) /\ includes(Val(grant.agency), term)
    \/ TruthyStr(grant.description) /\ includes(Val(grant.description), term)
    \/ TruthyStr(grant.opportunity_number)
         /\ includes(Val(grant.opportunity_number), term)

matchesSearch(grant, term) ==
    \/ TruthyStr(grant.title) /\ includes(toLowerCase(Val(grant.title)), term)
    \/ TruthyStr(grant.agency) /\ includes(toLowerCase(Val(grant.agency)), term)
    \/ TruthyStr(grant.description)
         /\ includes(toLowerCase(Val(grant.description)), term)
    \/ TruthyStr(grant.opportunity_number)
         /\ includes(toLowerCase(Val(grant.opportunity_number)), term)

matchesFundingRange(grant, range) ==
    LET ceiling == grant.award_ceiling IN
    IF ~TruthyNum(ceiling) THEN range = "unspecified"
    ELSE CASE range = "under-100k"  -> Val(ceiling) < 100000
           [] range = "100k-500k"   -> Val(ceiling) >= 100000 /\ Val(ceiling) < 500000
           [] range = "500k-1m"     -> Val(ceiling) >= 500000 /\ Val(ceiling) < 1000000
           [] range = "1m-5m"       -> Val(ceiling) >= 1000000 /\ Val(ceiling) < 5000000
           [] range = "5m-10m"      -> Val(ceiling) >= 5000000 /\ Val(ceiling) < 10000000
           [] range = "over-10m"    -> Val(ceiling) >= 10000000
           [] range = "unspecified" -> ~TruthyNum(ceiling)
           [] OTHER                 -> TRUE

\* clock is the time of the call in hours since 1970-01-01T00:00Z; a valid
\* close date is the midnight that starts its day
matchesDeadline(grant, deadline, clock) ==
    IF ~Has(grant.close_date) THEN FALSE
    ELSE LET closeDate == Val(grant.close_date)
             daysDiff  == Ceil(closeDate.day * 24 - clock, 24)
             within(n) == closeDate.valid /\ daysDiff <= n /\ daysDiff >= 0
         IN  CASE deadline = "week"     -> within(7)
               [] deadline = "month"    -> within(30)
               [] deadline = "quarter"  -> within(90)
               [] deadline = "halfyear" -> within(180)
               [] deadline = "year"     -> within(365)
               [] OTHER                 -> TRUE


\* the body of the callback of grantsData.filter in filterGrants
grantPasses(grant, inputs, clock) ==
    LET searchTerm == toLowerCase(inputs.search)
        cfda       == toLowerCase(inputs.cfda)
    IN  /\ searchTerm # << >> => matchesSearch(grant, searchTerm)
        /\ inputs.agency # << >> => grant.agency = {inputs.agency}
        /\ inputs.category # << >> => grant.category = {inputs.category}
        /\ inputs.status # << >> => grant.status = {inputs.status}
        /\ inputs.funding # "" => matchesFundingRange(grant, inputs.funding)
        /\ inputs.instrument # << >>
             => grant.funding_instrument = {inputs.instrument}
        /\ inputs.deadline # "" => matchesDeadline(grant, inputs.deadline, clock)
        /\ inputs.costshare = "yes" => TruthyBool(grant.cost_sharing)
        /\ inputs.costshare = "no" => ~TruthyBool(grant.cost_sharing)
        /\ cfda # << >>
             => /\ TruthyStr(grant.cfda_number)
                /\ includes(toLowerCase(Val(grant.cfda_number)), cfda)

\* the new value of filteredGrants in filterGrants
filterGrantsResult(data, inputs, clock) ==
    FilterIdx(data, AllIdx(data), LAMBDA grant : grantPasses(grant, inputs, clock))

\* the comparator of sortTable
compareGrants(a, b, column, direction) ==
    LET sign == IF direction = "asc" THEN 1 ELSE -1 IN
    IF column \in {"award_ceiling", "total_funding"}
    THEN LET valA == IF TruthyNum(Get(a, column)) THEN Val(Get(a, column)) ELSE 0
             valB == IF TruthyNum(Get(b, column)) THEN Val(Get(b, column)) ELSE 0
         IN  sign * (valA - valB)
    ELSE IF column \in {"close_date", "posted_date"}
    THEN LET valA == IF Has(Get(a, column)) THEN Val(Get(a, column)) ELSE DateStr(FarFuture)
             valB == IF Has(Get(b, column)) THEN Val(Get(b, column)) ELSE DateStr(FarFuture)
         IN  IF valA.valid /\ valB.valid
             THEN sign * (valA.day - valB.day)
             ELSE 0   \* NaN: the sort takes it as 0
    ELSE LET valA == toLowerCase(IF Has(Get(a, column)) THEN Val(Get(a, column)) ELSE << >>)
             valB == toLowerCase(IF Has(Get(b, column)) THEN Val(Get(b, column)) ELSE << >>)
         IN  IF StrLess(valA, valB) THEN -sign
             ELSE IF StrLess(valB, valA) THEN sign
             ELSE 0

\* the direction sortTable sets for a click on column
nextDirection(column, curColumn, curDirection) ==
    IF curColumn = column
    THEN (IF curDirection = "asc" THEN "desc" ELSE "asc")
    ELSE "asc"

\* the columns of the grants table that carry data-sort
GrantSortColumns == {"title", "award_ceiling", "close_date"}

\* a data-sort value that names no field of any record
UnknownColumn == "relevance"

\* the slice with its start taken for a position counted from 1: what C11 is
\* to tell from pageSlice
pageSlice_StartCountedFromOne(filtered, page, perPage) ==
    SubSeq(filtered, Max(1, (page - 1) * perPage), Min(page * perPage, Len(filtered)))

\* the page of the table: updateTable's slice(start, end), start and end
\* counted from 0 and end excluded
pageSlice(filtered, page, perPage) ==
    SubSeq(filtered, (page - 1) * perPage + 1, Min(page * perPage, Len(filtered)))

\* the buttons updatePagination renders: Previous, the page numbers, Next
updatePagination(count, page) ==
    LET totalPages == Ceil(count, itemsPerPage)
        maxButtons == 7
        start0     == Max(1, page - 3)
        endPage    == Min(totalPages, start0 + maxButtons - 1)
        startPage  == IF endPage - start0 < maxButtons - 1
                      THEN Max(1, endPage - maxButtons + 1) ELSE start0
    IN  IF totalPages <= 1
        THEN [prev |-> FALSE, nums |-> {}, next |-> FALSE]
        ELSE [prev |-> page > 1,
              nums |-> (IF startPage > 1 THEN {1} ELSE {})
                       \cup (startPage..endPage)
                       \cup (IF endPage < totalPages THEN {totalPages} ELSE {}),
              next |-> page < totalPages]

\* the globals as app.js declares them, nothing loaded
GrantsGlobals ==
    /\ grantsData = << >>
    /\ filteredGrants = << >>
    /\ currentPage = 1
    /\ sortColumn = ""
    /\ sortDirection = "asc"
    /\ grantsInputs = EmptyGrantsInputs
    /\ grantsPager = updatePagination(0, 1)

\* the state once the page-ready handler has loaded and shown a snapshot
GrantsInit ==
    /\ grantsData \in GrantSnapshots
    /\ filteredGrants = AllIdx(grantsData)
    /\ currentPage = 1
    /\ sortColumn = ""
    /\ sortDirection = "asc"
    /\ grantsInputs = EmptyGrantsInputs
    /\ grantsPager = updatePagination(Len(grantsData), 1)

\* filterGrants, the controls holding inputs
filterGrants(inputs) ==
    /\ "grants" \in tabs
    /\ grantsInputs' = inputs
    /\ filteredGrants' = filterGrantsResult(grantsData, inputs, now)
    /\ currentPage' = 1
    /\ grantsPager' = updatePagination(Len(filteredGrants'), 1)
    /\ UNCHANGED <<grantsData, sortColumn, sortDirection>>
    /\ UNCHANGED notGrants

\* the user enters a search term and clicks Search (or presses Enter)
GrantsSearch(term) ==
    LET inputs == [grantsInputs EXCEPT !.search = term] IN
    /\ ActiveCount(inputs) <= MaxActive
    /\ filterGrants(inputs)
    /\ lastEvent' = "search"

\* the user changes one filter control
GrantsFilter(f, v) ==
    LET inputs == [grantsInputs EXCEPT ![f] = v] IN
    /\ grantsInputs[f] # v
    /\ ActiveCount(inputs) <= MaxActive
    /\ filterGrants(inputs)
    /\ lastEvent' = "filter"

\* a clear that leaves the search box as it is: what C15 is to tell from
\* GrantsClear
GrantsClear_SearchKept ==
    /\ filterGrants([EmptyGrantsInputs EXCEPT !.search = grantsInputs.search])
    /\ lastEvent' = "clear"

\* the click handler of clear-filters
GrantsClear ==
    /\ filterGrants(EmptyGrantsInputs)
    /\ lastEvent' = "clear"

\* loadGrantsData as handleAuthChange calls it at every login: the file is
\* fetched again and replaces the collection and the matching records; the
\* page, the controls and the rendered table are left as they are. A fetch
\* that fails changes nothing.
loadGrantsData ==
    /\ "grants" \in tabs
    /\ \/ \E fetched \in GrantSnapshots :
             /\ grantsData' = fetched
             /\ filteredGrants' = AllIdx(fetched)
       \/ UNCHANGED <<grantsData, filteredGrants>>
    /\ lastEvent' = "login"
    /\ UNCHANGED <<currentPage, sortColumn, sortDirection, grantsInputs, grantsPager>>
    /\ UNCHANGED notGrants

\* sortTable were filteredGrants the array grantsData itself and no copy of it:
\* what C27 is to tell from sortTable
sortTable_SortsTheCollection(column) ==
    LET direction == nextDirection(column, sortColumn, sortDirection)
        sorted == StableSort(filteredGrants,
                     LAMBDA i, j : compareGrants(grantsData[i], grantsData[j],
                                                 column, direction))
    IN
    /\ "grants" \in tabs
    /\ sortColumn' = column
    /\ sortDirection' = direction
    /\ IF Len(filteredGrants) = Len(grantsData)
       THEN /\ grantsData' = [k \in DOMAIN sorted |-> grantsData[sorted[k]]]
            /\ filteredGrants' = AllIdx(grantsData)
       ELSE /\ grantsData' = grantsData
            /\ filteredGrants' = sorted
    /\ grantsPager' = updatePagination(Len(filteredGrants'), currentPage)
    /\ lastEvent' = "sort"
    /\ UNCHANGED <<currentPage, grantsInputs>>
    /\ UNCHANGED notGrants

\* sortTable
sortTable(column) ==
    LET direction == nextDirection(column, sortColumn, sortDirection) IN
    /\ "grants" \in tabs
    /\ sortColumn' = column
    /\ sortDirection' = direction
    /\ filteredGrants' =
          StableSort(filteredGrants,
                     LAMBDA i, j : compareGrants(grantsData[i], grantsData[j],
                                                 column, direction))
    /\ grantsPager' = updatePagination(Len(filteredGrants'), currentPage)
    /\ lastEvent' = "sort"
    /\ UNCHANGED <<grantsData, currentPage, grantsInputs>>
    /\ UNCHANGED notGrants

\* a click on one of the rendered pagination buttons
showGrantsPage(page) ==
    /\ "grants" \in tabs
    /\ currentPage' = page
    /\ grantsPager' = updatePagination(Len(filteredGrants), page)
    /\ lastEvent' = "page"
    /\ UNCHANGED <<grantsData, filteredGrants, sortColumn, sortDirection,
                   grantsInputs>>
    /\ UNCHANGED notGrants

GrantsPrevPage == grantsPager.prev /\ showGrantsPage(currentPage - 1)

GrantsNextPage == grantsPager.next /\ showGrantsPage(currentPage + 1)

GrantsGotoPage == \E pageNum \in grantsPager.nums : showGrantsPage(pageNum)

\* exportResults: the matching grants as a CSV download, or the alert that
\* there is none
exportResults ==
    /\ "grants" \in tabs
    /\ ActiveCount(grantsInputs) <= MaxExportActive
    /\ lastEvent' = IF Len(filteredGrants) = 0 THEN "nothing to export" ELSE "export"
    /\ UNCHANGED <<grantsVars, notGrants>>

NextGrants ==
    \/ exportResults
    \/ \E term \in GrantSearchTerms \cup {<< >>} : GrantsSearch(term)
    \/ \E f \in DOMAIN grantsInputs \ {"search"} :
          \E v \in GrantChoices(grantsData, f) \cup {EmptyOf(f)} : GrantsFilter(f, v)
    \/ GrantsClear
    \/ \E column \in GrantSortColumns : sortTable(column)
    \/ GrantsPrevPage
    \/ GrantsNextPage
    \/ GrantsGotoPage

\* the grants page of a user who logs out and in again while searching,
\* filtering and paging (and leaves the column headers alone)
NextLogin ==
    \/ loadGrantsData
    \/ \E term \in GrantSearchTerms \cup {<< >>} : GrantsSearch(term)
    \/ \E f \in DOMAIN grantsInputs \ {"search"} :
          \E v \in GrantChoices(grantsData, f) \cup {EmptyOf(f)} : GrantsFilter(f, v)
    \/ GrantsClear
    \/ GrantsPrevPage
    \/ GrantsNextPage
    \/ GrantsGotoPage

-----------------------------------------------------------------------------
(* Challenges *)

challengeItemsPerPage == 20

sInnov  == <<"I","n","n","o","v">>
sGSA    == <<"G","S","A">>
sActive == <<"A","c","t","i","v","e">>
sUpcoming == <<"U","p">>
sTech   == <<"T","e","c","h">>

ChallengeKinds == <<
    [title |-> {sInnov}, agency |-> {sGSA}, description |-> {sLab},
     status |-> {sActive}, challenge_type |-> {sTech}, prize_total |-> {100000}],
    [title |-> {sCyber}, agency |-> {sDOE}, description |-> {},
     status |-> {sActive}, challenge_type |-> {}, prize_total |-> {}],
    [title |-> {sEnergy}, agency |-> {sDOE}, description |-> {sCYBER},
     status |-> {sUpcoming}, challenge_type |-> {sTech}, prize_total |-> {9999}],
    [title |-> {sLab}, agency |-> {sGSA}, description |-> {},
     status |-> {sUpcoming}, challenge_type |-> {sInnov}, prize_total |-> {0}],
    [title |-> {sCyber}, agency |-> {sGSA}, description |-> {sEnergy},
     status |-> {sActive}, challenge_type |-> {sInnov}, prize_total |-> {500000}] >>

\* a record that lacks the title and agency the code takes for granted
ChallengeWithoutTitle ==
    [title |-> {}, agency |-> {}, description |-> {sCyber},
     status |-> {sActive}, challenge_type |-> {sTech}, prize_total |-> {50000}]

ChallengeSnapshots ==
    {Snapshot(ChallengeKinds, n) : n \in {Len(ChallengeKinds), LongLen}}
    \cup {Snapshot(ChallengeKinds \o <<ChallengeWithoutTitle>>, LongLen)}

EmptyChallengeInputs ==
    [search |-> << >>, agency |-> << >>, status |-> << >>, type |-> << >>,
     prize |-> ""]

PrizeRanges == {"under-10k", "10k-50k", "50k-100k", "100k-500k", "over-500k"}

ChallengeSearchTerms == {<<"c","y","b">>, <<"G","S">>}

ChallengeChoices(data, f) ==
    CASE f = "search" -> ChallengeSearchTerms
      [] f = "agency" -> FieldValues(data, "agency")
      [] f = "status" -> FieldValues(data, "status")
      [] f = "type"   -> FieldValues(data, "challenge_type")
      [] f = "prize"  -> PrizeRanges

ChallengeEmptyOf(f) == IF f = "prize" THEN "" ELSE << >>

ChallengeActiveCount(inputs) ==
    Cardinality({f \in DOMAIN inputs : inputs[f] # ChallengeEmptyOf(f)})

\* matchesPrize in filterChallenges
matchesPrize(challenge, prizeFilter) ==
    IF prizeFilter # "" /\ TruthyNum(challenge.prize_total)
    THEN LET prize == Val(challenge.prize_total) IN
         CASE prizeFilter = "under-10k" -> prize < 10000
           [] prizeFilter = "10k-50k"   -> prize >= 10000 /\ prize < 50000
           [] prizeFilter = "50k-100k"  -> prize >= 50000 /\ prize < 100000
           [] prizeFilter = "100k-500k" -> prize >= 100000 /\ prize < 500000
           [] prizeFilter = "over-500k" -> prize >= 500000
           [] OTHER                     -> TRUE
    ELSE TRUE

\* matchesSearch in filterChallenges raises a TypeError: toLowerCase of an
\* absent title, or of an absent agency once the title did not match
challengeSearchThrows(challenge, searchTerm) ==
    /\ searchTerm # << >>
    /\ \/ ~Has(challenge.title)
       \/ /\ ~includes(toLowerCase(Val(challenge.title)), searchTerm)
          /\ ~Has(challenge.agency)

\* the body of the callback of challengesData.filter, where it does not throw
challengePasses(challenge, inputs) ==
    LET searchTerm == toLowerCase(inputs.search) IN
    /\ \/ searchTerm = << >>
       \/ includes(toLowerCase(Val(challenge.title)), searchTerm)
       \/ includes(toLowerCase(Val(challenge.agency)), searchTerm)
       \/ /\ TruthyStr(challenge.description)
          /\ includes(toLowerCase(Val(challenge.description)), searchTerm)
    /\ inputs.agency = << >> \/ challenge.agency = {inputs.agency}
    /\ inputs.status = << >> \/ challenge.status = {inputs.status}
    /\ inputs.type = << >> \/ challenge.challenge_type = {inputs.type}
    /\ matchesPrize(challenge, inputs.prize)

\* whether filterChallenges ends in an uncaught TypeError
filterChallengesThrows(data, inputs) ==
    \E i \in DOMAIN data : challengeSearchThrows(data[i], toLowerCase(inputs.search))

filterChallengesResult(data, inputs) ==
    FilterIdx(data, AllIdx(data), LAMBDA challenge : challengePasses(challenge, inputs))

\* the pages the buttons of updateChallengePagination lead to
updateChallengePagination(count, page) ==
    LET totalPages == Ceil(count, challengeItemsPerPage) IN
    IF totalPages <= 1 THEN {}
    ELSE (IF page > 1 THEN {page - 1} ELSE {})
         \cup ((1..totalPages) \ {page})
         \cup (IF page < totalPages THEN {page + 1} ELSE {})

\* the agencies populateChallengeFilters appends to challenge-filter-agency
challengeAgencies(data) == defaultSort(uniqueInOrder(fieldColumn(data, "agency")))

\* the options populateChallengeFilters gives challenge-filter-type, after
\* "All Types"
challengeTypes(data) ==
    defaultSort(uniqueInOrder(filterBoolean(fieldColumn(data, "challenge_type"))))

\* the globals as declared, nothing loaded
ChallengesGlobals ==
    /\ challengesData = << >>
    /\ filteredChallenges = << >>
    /\ currentChallengePage = 1
    /\ challengeInputs = EmptyChallengeInputs
    /\ challengePager = {}
    /\ challengeAgencySelect = << >>

\* the state once loadChallengesData has loaded and shown a snapshot
ChallengesInit ==
    /\ challengesData \in ChallengeSnapshots
    /\ filteredChallenges = AllIdx(challengesData)
    /\ currentChallengePage = 1
    /\ challengeInputs = EmptyChallengeInputs
    /\ challengePager = updateChallengePagination(Len(challengesData), 1)
    /\ challengeAgencySelect = challengeAgencies(challengesData)

\* filterChallenges, the controls holding inputs; a TypeError ends the handler
\* before it assigns anything
filterChallenges(inputs) ==
    /\ "challenges" \in tabs
    /\ challengeInputs' = inputs
    /\ IF filterChallengesThrows(challengesData, inputs)
       THEN UNCHANGED <<filteredChallenges, currentChallengePage, challengePager>>
       ELSE /\ filteredChallenges' = filterChallengesResult(challengesData, inputs)
            /\ currentChallengePage' = 1
            /\ challengePager' =
                  updateChallengePagination(Len(filteredChallenges'), 1)
    /\ UNCHANGED <<challengesData, challengeAgencySelect>>
    /\ UNCHANGED notChallenges

\* the user enters a search term and clicks Search (or presses Enter)
ChallengesSearch(term) ==
    LET inputs == [challengeInputs EXCEPT !.search = term] IN
    /\ ChallengeActiveCount(inputs) <= MaxActive
    /\ filterChallenges(inputs)
    /\ lastEvent' = IF filterChallengesThrows(challengesData, inputs)
                    THEN "error" ELSE "search"

\* the user changes one filter control
ChallengesFilter(f, v) ==
    LET inputs == [challengeInputs EXCEPT ![f] = v] IN
    /\ challengeInputs[f] # v
    /\ ChallengeActiveCount(inputs) <= MaxActive
    /\ filterChallenges(inputs)
    /\ lastEvent' = IF filterChallengesThrows(challengesData, inputs)
                    THEN "error" ELSE "filter"

clearChallengeFilters ==
    /\ "challenges" \in tabs
    /\ challengeInputs' = EmptyChallengeInputs
    /\ filteredChallenges' = AllIdx(challengesData)
    /\ currentChallengePage' = 1
    /\ challengePager' = updateChallengePagination(Len(challengesData), 1)
    /\ lastEvent' = "clear"
    /\ UNCHANGED <<challengesData, challengeAgencySelect>>
    /\ UNCHANGED notChallenges

\* changePage, called by a rendered pagination button
changePage(page) ==
    /\ "challenges" \in tabs
    /\ page \in challengePager
    /\ currentChallengePage' = page
    /\ challengePager' = updateChallengePagination(Len(filteredChallenges), page)
    /\ lastEvent' = "page"
    /\ UNCHANGED <<challengesData, filteredChallenges, challengeInputs,
                   challengeAgencySelect>>
    /\ UNCHANGED notChallenges

\* exportChallenges: the matching challenges as a CSV download;
\* challenge.description.substring is a TypeError for a challenge without one
exportChallenges ==
    /\ "challenges" \in tabs
    /\ ChallengeActiveCount(challengeInputs) <= MaxExportActive
    /\ lastEvent' = IF \E k \in DOMAIN filteredChallenges :
                          ~Has(challengesData[filteredChallenges[k]].description)
                    THEN "export error" ELSE "export"
    /\ UNCHANGED <<challengesVars, notChallenges>>

NextChallenges ==
    \/ exportChallenges
    \/ \E term \in ChallengeSearchTerms \cup {<< >>} : ChallengesSearch(term)
    \/ \E f \in DOMAIN challengeInputs \ {"search"} :
          \E v \in ChallengeChoices(challengesData, f) \cup {ChallengeEmptyOf(f)} :
             ChallengesFilter(f, v)
    \/ clearChallengeFilters
    \/ \E page \in challengePager : changePage(page)

-----------------------------------------------------------------------------
(* The SBIR manager *)

sbirItemsPerPage == 20

SubTabs == {"awards", "companies", "solicitations"}

sTechCo == <<"T","e","c","h">>
sBioCo  == <<"B","i","o">>
sZedCo  == <<"Z","e","d">>
sPh1    == <<"P","h"," ","I">>
sPh2    == <<"P","h"," ","I","I">>
sTX     == <<"T","X">>
sMA     == <<"M","A">>
sClosed == <<"C","l","o","s","e","d">>

AwardKinds == <<
    [award_title |-> {sCyber}, firm |-> {sTechCo}, abstract |-> {sLab},
     keywords |-> {sEnergy}, agency |-> {sDOE}, phase |-> {sPh1},
     award_year |-> {2024}, company_state |-> {sTX}],
    [award_title |-> {sEnergy}, firm |-> {sBioCo}, abstract |-> {},
     keywords |-> {}, agency |-> {sNSF}, phase |-> {sPh2},
     award_year |-> {2023}, company_state |-> {sMA}],
    [award_title |-> {}, firm |-> {}, abstract |-> {},
     keywords |-> {}, agency |-> {sDOE}, phase |-> {sPh2},
     award_year |-> {}, company_state |-> {}],
    [award_title |-> {sLab}, firm |-> {sZedCo}, abstract |-> {sCYBER},
     keywords |-> {}, agency |-> {}, phase |-> {sPh1},
     award_year |-> {2024}, company_state |-> {sTX}] >>

CompanyKinds == <<
    [firm_name |-> {sTechCo}, location |-> {sTX}, state |-> {sTX},
     total_funding |-> {1500000}, total_awards |-> {1}, employees |-> {50}],
    [firm_name |-> {sBioCo}, location |-> {}, state |-> {sMA},
     total_funding |-> {}, total_awards |-> {}, employees |-> {}],
    [firm_name |-> {sCyber}, location |-> {sMA}, state |-> {sMA},
     total_funding |-> {500000}, total_awards |-> {5}, employees |-> {10}],
    [firm_name |-> {}, location |-> {}, state |-> {},
     total_funding |-> {0}, total_awards |-> {11}, employees |-> {101}] >>

SolicitationKinds == <<
    [title |-> {sCyber}, description |-> {sLab}, agency |-> {sDOE},
     status |-> {sOpen}, phases_offered |-> {sPh1}],
    [title |-> {sEnergy}, description |-> {}, agency |-> {sNSF},
     status |-> {sClosed}, phases_offered |-> {sPh2}],
    [title |-> {}, description |-> {}, agency |-> {},
     status |-> {sOpen}, phases_offered |-> {}] >>

\* what sbir_data.json may hold: every sub-collection short, or the awards long
SbirSnapshots ==
    {[awards        |-> Snapshot(AwardKinds, n),
      companies     |-> Snapshot(CompanyKinds, Len(CompanyKinds)),
      solicitations |-> Snapshot(SolicitationKinds, Len(SolicitationKinds))] :
        n \in {Len(AwardKinds), LongLen}}

EmptySbirInputs ==
    [awards        |-> [search |-> << >>, agency |-> << >>, phase |-> << >>,
                        year |-> << >>, state |-> << >>],
     companies     |-> [search |-> << >>, state |-> << >>, funding |-> "",
                        awards |-> "", employees |-> ""],
     solicitations |-> [search |-> << >>, agency |-> << >>, status |-> << >>,
                        phases |-> << >>]]

SbirFundingRanges   == {"under-500k", "500k-1m", "1m-5m", "5m-10m", "over-10m"}
SbirAwardsRanges    == {"1", "2-5", "6-10", "over-10"}
SbirEmployeesRanges == {"under-10", "10-50", "50-100", "over-100"}

SbirTokenControls == {"funding", "awards", "employees"}

SbirEmptyOf(f) == IF f \in SbirTokenControls THEN "" ELSE << >>

\* Number.prototype.toString of a non-negative integer
RECURSIVE toString(_)
toString(n) ==
    LET digit == <<"0","1","2","3","4","5","6","7","8","9">>[(n % 10) + 1] IN
    IF n < 10 THEN <<digit>> ELSE toString(n \div 10) \o <<digit>>

\* the options populateFilterOptions gives the two state selects, after
\* "All States"
sbirStateList(data) ==
    defaultSort(uniqueInOrder(
        filterBoolean(fieldColumn(data.awards, "company_state"))
        \o filterBoolean(fieldColumn(data.companies, "state"))))

\* the state options populateFilterOptions builds for awards and companies
sbirStateOptions(data) ==
    {v \in FieldValues(data.awards, "company_state")
             \cup FieldValues(data.companies, "state") : v # << >>}

SbirSearchTerms(type) ==
    CASE type = "awards"        -> {<<"c","y","b">>, <<" ","T","e","c","h"," ">>}
      [] type = "companies"     -> {<<"t","e","c","h">>}
      [] type = "solicitations" -> {<<"c","y","b">>}

\* the values the user can give each control
SbirChoices(data, type, f) ==
    CASE f = "search"    -> SbirSearchTerms(type)
      [] f = "agency"    -> {v \in FieldValues(data[type], "agency") : v # << >>}
      [] f = "phase"     -> {sPh1, sPh2}
      [] f = "year"      -> {toString(2024)}
      [] f = "state"     -> sbirStateOptions(data)
      [] f = "funding"   -> {"under-500k", "500k-1m", "1m-5m"}
      [] f = "awards"    -> {"1", "2-5", "over-10"}
      [] f = "employees" -> {"10-50", "50-100", "over-100"}
      [] f = "status"    -> {sOpen}
      [] f = "phases"    -> {sPh1, sPh2}

SbirActiveCount(inputs) ==
    Cardinality({tf \in SubTabs \X {"search", "agency", "phase", "year", "state",
                                    "funding", "awards", "employees", "status",
                                    "phases"} :
                    /\ tf[2] \in DOMAIN inputs[tf[1]]
                    /\ inputs[tf[1]][tf[2]] # SbirEmptyOf(tf[2])})

\* o?.toLowerCase().includes(searchTerm)
optIncludes(o, searchTerm) ==
    Has(o) /\ includes(toLowerCase(Val(o)), searchTerm)

\* the callback of the filter in performSearch
sbirMatchesSearch(type, item, searchTerm) ==
    CASE type = "awards" ->
            \/ optIncludes(item.award_title, searchTerm)
            \/ optIncludes(item.firm, searchTerm)
            \/ optIncludes(item.abstract, searchTerm)
            \/ optIncludes(item.keywords, searchTerm)
      [] type = "companies" ->
            \/ optIncludes(item.firm_name, searchTerm)
            \/ optIncludes(item.location, searchTerm)
      [] type = "solicitations" ->
            \/ optIncludes(item.title, searchTerm)
            \/ optIncludes(item.description, searchTerm)

sbirMatchesFundingRange(amount, range) ==
    IF ~TruthyNum(amount) THEN range = "under-500k"
    ELSE LET a == Val(amount) IN
         CASE range = "under-500k" -> a < 500000
           [] range = "500k-1m"    -> a >= 500000 /\ a < 1000000
           [] range = "1m-5m"      -> a >= 1000000 /\ a < 5000000
           [] range = "5m-10m"     -> a >= 5000000 /\ a < 10000000
           [] range = "over-10m"   -> a >= 10000000
           [] OTHER                -> TRUE

\* no guard for a missing count: every comparison with undefined is false
matchesAwardsRange(count, range) ==
    CASE range = "1"       -> Has(count) /\ Val(count) = 1
      [] range = "2-5"     -> Has(count) /\ Val(count) >= 2 /\ Val(count) <= 5
      [] range = "6-10"    -> Has(count) /\ Val(count) >= 6 /\ Val(count) <= 10
      [] range = "over-10" -> Has(count) /\ Val(count) > 10
      [] OTHER             -> TRUE

matchesEmployeesRange(count, range) ==
    IF ~TruthyNum(count) THEN TRUE
    ELSE LET c == Val(count) IN
         CASE range = "under-10" -> c < 10
           [] range = "10-50"    -> c >= 10 /\ c <= 50
           [] range = "50-100"   -> c >= 50 /\ c <= 100
           [] range = "over-100" -> c > 100
           [] OTHER              -> TRUE

\* the conjunction of the filters applyFilters applies one after the other
sbirPassesFilters(type, item, inputs) ==
    CASE type = "awards" ->
            /\ inputs.agency = << >> \/ item.agency = {inputs.agency}
            /\ inputs.phase = << >> \/ item.phase = {inputs.phase}
            /\ inputs.year = << >>
               \/ (Has(item.award_year) /\ toString(Val(item.award_year)) = inputs.year)
            /\ inputs.state = << >> \/ item.company_state = {inputs.state}
      [] type = "companies" ->
            /\ inputs.state = << >> \/ item.state = {inputs.state}
            /\ inputs.funding = ""
               \/ sbirMatchesFundingRange(item.total_funding, inputs.funding)
            /\ inputs.awards = ""
               \/ matchesAwardsRange(item.total_awards, inputs.awards)
            /\ inputs.employees = ""
               \/ matchesEmployeesRange(item.employees, inputs.employees)
      [] type = "solicitations" ->
            /\ inputs.agency = << >> \/ item.agency = {inputs.agency}
            /\ inputs.status = << >> \/ item.status = {inputs.status}
            /\ inputs.phases = << >>
               \/ (Has(item.phases_offered)
                   /\ includes(Val(item.phases_offered), inputs.phases))

\* applyFilters: the filters applied to the records this.filteredData[type] holds
sbirApplyFilters(type, data, filtered, inputs) ==
    FilterIdx(data[type], filtered,
              LAMBDA item : sbirPassesFilters(type, item, inputs))

\* performSearch: the search over the whole sub-collection, then applyFilters
sbirPerformSearch(type, data, inputs) ==
    LET searchTerm == trim(toLowerCase(inputs.search)) IN
    sbirApplyFilters(type, data,
        FilterIdx(data[type], AllIdx(data[type]),
                  LAMBDA item : sbirMatchesSearch(type, item, searchTerm)),
        inputs)

\* the pages the buttons of updatePagination lead to
sbirUpdatePagination(count, page) ==
    LET totalPages == Ceil(count, sbirItemsPerPage) IN
    IF totalPages <= 1 THEN {}
    ELSE (IF page > 1 THEN {page - 1} ELSE {})
         \cup (Max(1, page - 2) .. Min(totalPages, page + 2))
         \cup (IF page < totalPages THEN {page + 1} ELSE {})

\* the state once loadSBIRData has loaded and shown a snapshot
SBIRInit ==
    /\ sbirData \in SbirSnapshots
    /\ sbirFilteredData = [t \in SubTabs |-> AllIdx(sbirData[t])]
    /\ sbirCurrentPage = [t \in SubTabs |-> 1]
    /\ currentSubTab = "awards"
    /\ sbirInputs = EmptySbirInputs
    /\ sbirPager = [t \in SubTabs |-> sbirUpdatePagination(Len(sbirData[t]), 1)]

\* a sub-tab the user has worked in since it was loaded or cleared
Touched(type) ==
    \/ sbirInputs[type] # EmptySbirInputs[type]
    \/ sbirFilteredData[type] # AllIdx(sbirData[type])
    \/ sbirCurrentPage[type] # 1

\* the user works with the filters and the pages of one sub-tab at a time:
\* before that the user has left the other two as loaded, or as the Clear
\* button leaves them
MayTouch(type) == \A t \in SubTabs \ {type} : ~Touched(t)

\* a query that holds nothing but a search term
SearchAlone(type, inputs) ==
    inputs = [EmptySbirInputs[type] EXCEPT !.search = inputs.search]

\* a sub-tab as loaded, cleared, or left by a search alone
SearchedOnly(type) ==
    /\ sbirCurrentPage[type] = 1
    /\ SearchAlone(type, sbirInputs[type])
    /\ \/ ~Touched(type)
       \/ sbirFilteredData[type] = sbirPerformSearch(type, sbirData, sbirInputs[type])

\* searches, and the cross-references that are searches, are followed over
\* several sub-tabs
MaySearch(type, inputs) ==
    /\ SearchAlone(type, inputs)
    /\ \A t \in SubTabs \ {type} : SearchedOnly(t)

\* applyFilters were this.filteredData rebuilt whole, as loadSBIRData builds
\* it: what C28 is to tell from sbirShow
sbirShow_RebuildsEverySubTab(type, inputs, filtered) ==
    /\ MayTouch(type) \/ MaySearch(type, inputs)
    /\ sbirInputs' = [sbirInputs EXCEPT ![type] = inputs]
    /\ sbirFilteredData' =
          [t \in SubTabs |-> IF t = type THEN filtered ELSE AllIdx(sbirData[t])]
    /\ sbirCurrentPage' = [t \in SubTabs |-> 1]
    /\ sbirPager' = [sbirPager EXCEPT ![type] = sbirUpdatePagination(Len(filtered), 1)]
    /\ UNCHANGED sbirData
    /\ UNCHANGED notSBIR

\* the end of applyFilters: the result stored, page 1 shown
sbirShow(type, inputs, filtered) ==
    /\ MayTouch(type) \/ MaySearch(type, inputs)
    /\ sbirInputs' = [sbirInputs EXCEPT ![type] = inputs]
    /\ sbirFilteredData' = [sbirFilteredData EXCEPT ![type] = filtered]
    /\ sbirCurrentPage' = [sbirCurrentPage EXCEPT ![type] = 1]
    /\ sbirPager' = [sbirPager EXCEPT ![type] = sbirUpdatePagination(Len(filtered), 1)]
    /\ UNCHANGED sbirData
    /\ UNCHANGED notSBIR

\* the user changes the search box of the open sub-tab
performSearch(type, term) ==
    LET inputs == [sbirInputs[type] EXCEPT !.search = term] IN
    /\ "sbir" \in tabs
    /\ currentSubTab = type
    /\ SbirActiveCount([sbirInputs EXCEPT ![type] = inputs]) <= MaxActive
    /\ sbirShow(type, inputs, sbirPerformSearch(type, sbirData, inputs))
    /\ lastEvent' = "search"
    /\ UNCHANGED currentSubTab

\* the user changes one filter control of the open sub-tab
applyFilters(type, f, v) ==
    LET inputs == [sbirInputs[type] EXCEPT ![f] = v] IN
    /\ "sbir" \in tabs
    /\ currentSubTab = type
    /\ sbirInputs[type][f] # v
    /\ SbirActiveCount([sbirInputs EXCEPT ![type] = inputs]) <= MaxActive
    /\ sbirShow(type, inputs,
                sbirApplyFilters(type, sbirData, sbirFilteredData[type], inputs))
    /\ lastEvent' = "filter"
    /\ UNCHANGED currentSubTab

clearFilters(type) ==
    /\ "sbir" \in tabs
    /\ currentSubTab = type
    /\ sbirShow(type, EmptySbirInputs[type], AllIdx(sbirData[type]))
    /\ lastEvent' = "clear"
    /\ UNCHANGED currentSubTab

\* changePage, called by a rendered pagination button
sbirChangePage(type, page) ==
    /\ "sbir" \in tabs
    /\ currentSubTab = type
    /\ page \in sbirPager[type]
    /\ MayTouch(type)
    /\ sbirCurrentPage' = [sbirCurrentPage EXCEPT ![type] = page]
    /\ sbirPager' = [sbirPager EXCEPT
                       ![type] = sbirUpdatePagination(Len(sbirFilteredData[type]), page)]
    /\ lastEvent' = "page"
    /\ UNCHANGED <<sbirData, sbirFilteredData, currentSubTab, sbirInputs>>
    /\ UNCHANGED notSBIR

switchSubTab(subtab) ==
    /\ "sbir" \in tabs
    /\ currentSubTab' = subtab
    /\ lastEvent' = "subtab"
    /\ UNCHANGED <<sbirData, sbirFilteredData, sbirCurrentPage, sbirInputs, sbirPager>>
    /\ UNCHANGED notSBIR

\* the rows displayData puts in the table of a sub-tab
sbirPageData(type) ==
    pageSlice(sbirFilteredData[type], sbirCurrentPage[type], sbirItemsPerPage)

\* item.field || ''
OrEmpty(o) == IF Has(o) THEN Val(o) ELSE << >>

\* the agency link of a displayed row; the select takes the row's agency
filterByAgency(currentTab, row) ==
    LET agencyName == OrEmpty(sbirData[currentTab][row].agency)
        inputs == [sbirInputs[currentTab] EXCEPT !.agency = agencyName] IN
    /\ "sbir" \in tabs
    /\ currentSubTab = currentTab
    /\ SbirActiveCount([sbirInputs EXCEPT ![currentTab] = inputs]) <= MaxActive
    /\ sbirShow(currentTab, inputs,
                sbirApplyFilters(currentTab, sbirData, sbirFilteredData[currentTab],
                                 inputs))
    /\ lastEvent' = "agency link"
    /\ UNCHANGED currentSubTab

\* companies.find in showCompanyFromName: 0 when no company has the name, -1
\* when the search reaches a company without firm_name and raises a TypeError
findCompany(companies, companyName) ==
    LET hit(j) == Has(companies[j].firm_name)
                  /\ toLowerCase(Val(companies[j].firm_name)) = toLowerCase(companyName)
        stops == {j \in DOMAIN companies : ~Has(companies[j].firm_name) \/ hit(j)}
        first == CHOOSE j \in stops : \A k \in stops : j <= k IN
    IF stops = {} THEN 0 ELSE IF hit(first) THEN first ELSE -1

\* a cross-reference that leaves out clearFilters(type): what C17 is to tell
\* from sbirShowByName
sbirShowByName_FiltersKept(type, companyName) ==
    LET inputs == [sbirInputs[type] EXCEPT !.search = companyName] IN
    /\ SbirActiveCount([sbirInputs EXCEPT ![type] = inputs]) <= MaxActive
    /\ currentSubTab' = type
    /\ sbirShow(type, inputs, sbirPerformSearch(type, sbirData, inputs))

\* the cross-reference: clearFilters(type), the name put in the search box,
\* performSearch(type)
sbirShowByName(type, companyName) ==
    LET inputs == [EmptySbirInputs[type] EXCEPT !.search = companyName] IN
    /\ SbirActiveCount([sbirInputs EXCEPT ![type] = inputs]) <= MaxActive
    /\ currentSubTab' = type
    /\ sbirShow(type, inputs, sbirPerformSearch(type, sbirData, inputs))

\* the company link of a displayed award
showCompanyFromName(row) ==
    LET companyName == OrEmpty(sbirData.awards[row].firm) IN
    /\ "sbir" \in tabs
    /\ currentSubTab = "awards"
    /\ lastEvent' = IF findCompany(sbirData.companies, companyName) > 0
                    THEN "company link"
                    ELSE IF findCompany(sbirData.companies, companyName) = 0
                    THEN "not found"   \* the alert
                    ELSE "error"       \* the TypeError, no alert
    /\ IF findCompany(sbirData.companies, companyName) > 0
       THEN sbirShowByName("companies", companyName)
       ELSE UNCHANGED <<sbirVars, notSBIR>>

\* the button of the profile of a displayed company; the profile of a company
\* without firm_name fails to render
showAwardsForCompany(row) ==
    /\ "sbir" \in tabs
    /\ currentSubTab = "companies"
    /\ Has(sbirData.companies[row].firm_name)
    /\ sbirShowByName("awards", Val(sbirData.companies[row].firm_name))
    /\ lastEvent' = "awards link"

SbirControls(type) == DOMAIN EmptySbirInputs[type] \ {"search"}

\* exportResults(type): the matching records of the sub-tab shown as a CSV
\* download
sbirExportResults(type) ==
    /\ "sbir" \in tabs
    /\ currentSubTab = type
    /\ SbirActiveCount(sbirInputs) <= MaxExportActive
    /\ lastEvent' = "export"
    /\ UNCHANGED <<sbirVars, notSBIR>>

NextSBIR ==
    \/ \E type \in SubTabs : sbirExportResults(type)
    \/ \E type \in SubTabs :
          \E term \in SbirSearchTerms(type) \cup {<< >>} : performSearch(type, term)
    \/ \E type \in SubTabs : \E f \in SbirControls(type) :
          \E v \in SbirChoices(sbirData, type, f) \cup {SbirEmptyOf(f)} :
             applyFilters(type, f, v)
    \/ \E type \in SubTabs : clearFilters(type)
    \/ \E type \in SubTabs : \E page \in sbirPager[type] : sbirChangePage(type, page)
    \/ \E subtab \in SubTabs : switchSubTab(subtab)
    \/ \E currentTab \in {"awards", "solicitations"} :
          \E i \in 1..Len(sbirPageData(currentTab)) :
             filterByAgency(currentTab, sbirPageData(currentTab)[i])
    \/ \E i \in 1..Len(sbirPageData("awards")) :
          showCompanyFromName(sbirPageData("awards")[i])
    \/ \E i \in 1..Len(sbirPageData("companies")) :
          showAwardsForCompany(sbirPageData("companies")[i])

-----------------------------------------------------------------------------
(* The NOFAs manager *)

nofasItemsPerPage == 20

sFSA     == <<"F","S","A","-","1">>
sDueBy   == <<"D","u","e"," ","3","0">>
sOneWeek == <<"1"," ","w","e","e","k">>

NofaKinds == <<
    [title |-> {sCyber}, agency |-> {sNSF}, abstract |-> {sLab},
     keywords |-> {<<sEnergy, sGrant>>}, document_number |-> {sN1},
     publication_date |-> {DateStr(20310)}, funding_amount |-> {320000000},
     application_deadline |-> {sDueBy}, significant |-> {TRUE},
     docket_id |-> {sFSA}],
    [title |-> {sEnergy}, agency |-> {sDOE}, abstract |-> {},
     keywords |-> {}, document_number |-> {},
     publication_date |-> {DateStr(20200)}, funding_amount |-> {},
     application_deadline |-> {}, significant |-> {FALSE},
     docket_id |-> {}],
    [title |-> {}, agency |-> {}, abstract |-> {},
     keywords |-> {}, document_number |-> {},
     publication_date |-> {}, funding_amount |-> {0},
     application_deadline |-> {sOneWeek}, significant |-> {},
     docket_id |-> {}],
    [title |-> {sLab}, agency |-> {sNSF}, abstract |-> {sCYBER},
     keywords |-> {<< >>}, document_number |-> {sN2},
     publication_date |-> {DateStr(20400)}, funding_amount |-> {999999},
     application_deadline |-> {sOpen}, significant |-> {TRUE},
     docket_id |-> {sN2}],
    [title |-> {sCyber}, agency |-> {sDOE}, abstract |-> {},
     keywords |-> {<<sCyber>>}, document_number |-> {sN2},
     publication_date |-> {DateStr(19900)}, funding_amount |-> {1000000},
     application_deadline |-> {}, significant |-> {FALSE},
     docket_id |-> {sFSA}] >>

NofaSnapshots == {Snapshot(NofaKinds, n) : n \in {Len(NofaKinds), LongLen}}

EmptyNofasInputs ==
    [search |-> << >>, agency |-> << >>, date |-> "", funding |-> "",
     deadline |-> "", significant |-> "", docket |-> << >>]

NofaDateRanges     == {"week", "month", "quarter", "year"}
NofaFundingRanges  == {"under-1m", "1m-10m", "10m-100m", "over-100m", "unspecified"}

NofaTokenControls == {"date", "funding", "deadline", "significant"}

NofaEmptyOf(f) == IF f \in NofaTokenControls THEN "" ELSE << >>

NofaSearchTerms == {<<"c","y","b">>, <<" ","N","S","F">>}

\* the options populateFilterOptions gives nofas-filter-agency, after
\* "All Agencies"
nofaAgencyList(data) ==
    defaultSort(uniqueInOrder(filterBoolean(fieldColumn(data, "agency"))))

\* the values the user can give each control
NofaChoices(data, f) ==
    CASE f = "search"      -> NofaSearchTerms
      [] f = "agency"      -> FieldValues(data, "agency")
      [] f = "date"        -> {"week", "year"}
      [] f = "funding"     -> {"under-1m", "1m-10m", "unspecified"}
      [] f = "deadline"    -> {"open", "week"}
      [] f = "significant" -> {"true", "false"}
      [] f = "docket"      -> {<<"f","s","a"," ">>}

NofaActiveCount(inputs) ==
    Cardinality({f \in DOMAIN inputs : inputs[f] # NofaEmptyOf(f)})

\* the callback of the filter in performSearch
nofaMatchesSearch(nofa, searchTerm) ==
    \/ optIncludes(nofa.title, searchTerm)
    \/ optIncludes(nofa.agency, searchTerm)
    \/ optIncludes(nofa.abstract, searchTerm)
    \/ /\ Has(nofa.keywords)
       /\ \E k \in DOMAIN Val(nofa.keywords) :
             includes(toLowerCase(Val(nofa.keywords)[k]), searchTerm)
    \/ optIncludes(nofa.document_number, searchTerm)

\* the days the date filter looks back
nofaCutoffDays(dateFilter) ==
    CASE dateFilter = "week"    -> 7
      [] dateFilter = "month"   -> 30
      [] dateFilter = "quarter" -> 90
      [] dateFilter = "year"    -> 365

\* the date filter of applyFilters; clock in hours
nofaMatchesDate(nofa, dateFilter, clock) ==
    IF dateFilter \notin NofaDateRanges THEN TRUE
    ELSE /\ Has(nofa.publication_date)
         /\ Val(nofa.publication_date).valid
         /\ Val(nofa.publication_date).day * 24 >= clock - nofaCutoffDays(dateFilter) * 24

nofaMatchesFundingRange(amount, range) ==
    IF ~TruthyNum(amount) THEN range = "unspecified"
    ELSE LET a == Val(amount) IN
         CASE range = "under-1m"  -> a < 1000000
           [] range = "1m-10m"    -> a >= 1000000 /\ a < 10000000
           [] range = "10m-100m"  -> a >= 10000000 /\ a < 100000000
           [] range = "over-100m" -> a >= 100000000
           [] OTHER               -> TRUE

matchesDeadlineFilter(deadline, filter) ==
    IF ~TruthyStr(deadline) THEN filter # "open"
    ELSE LET deadlineText == toLowerCase(Val(deadline)) IN
         CASE filter = "open" ->
                 \/ includes(deadlineText, <<"o","p","e","n">>)
                 \/ includes(deadlineText, <<"a","c","c","e","p","t","i","n","g">>)
                 \/ includes(deadlineText, <<"d","u","e">>)
           [] filter = "week" ->
                 \/ includes(deadlineText, <<"7"," ","d","a","y","s">>)
                 \/ includes(deadlineText, <<"w","e","e","k">>)
           [] filter = "month" ->
                 \/ includes(deadlineText, <<"3","0"," ","d","a","y","s">>)
                 \/ includes(deadlineText, <<"m","o","n","t","h">>)
           [] filter = "quarter" ->
                 \/ includes(deadlineText, <<"q","u","a","r","t","e","r">>)
                 \/ includes(deadlineText, <<"3"," ","m","o","n","t","h","s">>)
           [] OTHER -> TRUE

\* the conjunction of the filters applyFilters applies one after the other
nofaPassesFilters(nofa, inputs, clock) ==
    LET docketFilter == trim(inputs.docket) IN
    /\ inputs.agency = << >> \/ nofa.agency = {inputs.agency}
    /\ inputs.date = "" \/ nofaMatchesDate(nofa, inputs.date, clock)
    /\ inputs.funding = "" \/ nofaMatchesFundingRange(nofa.funding_amount, inputs.funding)
    /\ inputs.deadline = ""
       \/ matchesDeadlineFilter(nofa.application_deadline, inputs.deadline)
    /\ inputs.significant = ""
       \/ nofa.significant = {inputs.significant = "true"}
    /\ docketFilter = << >>
       \/ optIncludes(nofa.docket_id, toLowerCase(docketFilter))

\* applyFilters: the filters applied to the records this.filteredData holds
nofaApplyFilters(data, filtered, inputs, clock) ==
    FilterIdx(data, filtered, LAMBDA nofa : nofaPassesFilters(nofa, inputs, clock))

\* performSearch: the search over the whole collection, then applyFilters
nofaPerformSearch(data, inputs, clock) ==
    LET searchTerm == trim(toLowerCase(inputs.search)) IN
    nofaApplyFilters(data,
        FilterIdx(data, AllIdx(data), LAMBDA nofa : nofaMatchesSearch(nofa, searchTerm)),
        inputs, clock)

\* the comparator of sortTable
compareNofas(a, b, column) ==
    IF column \in {"publication_date", "effective_date"}
    THEN LET aVal == IF Has(Get(a, column)) THEN Val(Get(a, column)) ELSE DateStr(0)
             bVal == IF Has(Get(b, column)) THEN Val(Get(b, column)) ELSE DateStr(0)
         IN  IF ~(aVal.valid /\ bVal.valid) THEN 0
             ELSE IF aVal.day < bVal.day THEN -1
             ELSE IF aVal.day > bVal.day THEN 1 ELSE 0
    ELSE IF column = "funding_amount"
    THEN LET aVal == IF TruthyNum(Get(a, column)) THEN Val(Get(a, column)) ELSE 0
             bVal == IF TruthyNum(Get(b, column)) THEN Val(Get(b, column)) ELSE 0
         IN  IF aVal < bVal THEN -1 ELSE IF aVal > bVal THEN 1 ELSE 0
    ELSE LET aVal == OrEmpty(Get(a, column))
             bVal == OrEmpty(Get(b, column))
         IN  IF StrLess(aVal, bVal) THEN -1
             ELSE IF StrLess(bVal, aVal) THEN 1 ELSE 0

\* the columns whose headers sort the table
NofaSortColumns == {"title", "publication_date", "funding_amount"}

\* the pages the buttons of updatePagination lead to
nofaUpdatePagination(count, page) ==
    LET totalPages == Ceil(count, nofasItemsPerPage) IN
    IF totalPages <= 1 THEN {}
    ELSE (IF page > 1 THEN {page - 1} ELSE {})
         \cup (Max(1, page - 2) .. Min(totalPages, page + 2))
         \cup (IF page < totalPages THEN {page + 1} ELSE {})

\* the state once loadNOFAsData has loaded and shown a snapshot
NOFAsInit ==
    /\ nofasData \in NofaSnapshots
    /\ nofasFilteredData = AllIdx(nofasData)
    /\ nofasCurrentPage = 1
    /\ nofasInputs = EmptyNofasInputs
    /\ nofasPager = nofaUpdatePagination(Len(nofasData), 1)

\* the end of applyFilters: the result stored, page 1 shown
nofaShow(inputs, filtered) ==
    /\ "nofas" \in tabs
    /\ nofasInputs' = inputs
    /\ nofasFilteredData' = filtered
    /\ nofasCurrentPage' = 1
    /\ nofasPager' = nofaUpdatePagination(Len(filtered), 1)
    /\ UNCHANGED nofasData
    /\ UNCHANGED notNOFAs

\* the user changes the search box
nofaSearch(term) ==
    LET inputs == [nofasInputs EXCEPT !.search = term] IN
    /\ NofaActiveCount(inputs) <= MaxActive
    /\ nofaShow(inputs, nofaPerformSearch(nofasData, inputs, now))
    /\ lastEvent' = "search"

\* the user changes one filter control
nofaFilter(f, v) ==
    LET inputs == [nofasInputs EXCEPT ![f] = v] IN
    /\ nofasInputs[f] # v
    /\ NofaActiveCount(inputs) <= MaxActive
    /\ nofaShow(inputs, nofaApplyFilters(nofasData, nofasFilteredData, inputs, now))
    /\ lastEvent' = "filter"

clearNofaFilters ==
    /\ nofaShow(EmptyNofasInputs, AllIdx(nofasData))
    /\ lastEvent' = "clear"

\* changePage, called by a rendered pagination button
nofaChangePage(page) ==
    /\ "nofas" \in tabs
    /\ page \in nofasPager
    /\ nofasCurrentPage' = page
    /\ nofasPager' = nofaUpdatePagination(Len(nofasFilteredData), page)
    /\ lastEvent' = "page"
    /\ UNCHANGED <<nofasData, nofasFilteredData, nofasInputs>>
    /\ UNCHANGED notNOFAs

\* sortTable: the filtered records sorted in place, the current page shown again
nofaSortTable(column) ==
    /\ "nofas" \in tabs
    /\ nofasFilteredData' =
          StableSort(nofasFilteredData,
                     LAMBDA i, j : compareNofas(nofasData[i], nofasData[j], column))
    /\ nofasPager' = nofaUpdatePagination(Len(nofasFilteredData), nofasCurrentPage)
    /\ lastEvent' = "sort"
    /\ UNCHANGED <<nofasData, nofasCurrentPage, nofasInputs>>
    /\ UNCHANGED notNOFAs

\* exportResults: the matching NOFAs as a CSV download
nofaExportResults ==
    /\ "nofas" \in tabs
    /\ NofaActiveCount(nofasInputs) <= MaxExportActive
    /\ lastEvent' = "export"
    /\ UNCHANGED <<nofasVars, notNOFAs>>

NextNOFAs ==
    \/ nofaExportResults
    \/ \E term \in NofaSearchTerms \cup {<< >>} : nofaSearch(term)
    \/ \E f \in DOMAIN nofasInputs \ {"search"} :
          \E v \in NofaChoices(nofasData, f) \cup {NofaEmptyOf(f)} : nofaFilter(f, v)
    \/ clearNofaFilters
    \/ \E page \in nofasPager : nofaChangePage(page)
    \/ \E column \in NofaSortColumns : nofaSortTable(column)

-----------------------------------------------------------------------------
(* The managers as their constructors leave them *)

\* the manager's fields when its section is not on the page
SBIRConstructed ==
    /\ sbirData = [t \in SubTabs |-> << >>]
    /\ sbirFilteredData = [t \in SubTabs |-> << >>]
    /\ sbirCurrentPage = [t \in SubTabs |-> 1]
    /\ currentSubTab = "awards"
    /\ sbirInputs = EmptySbirInputs
    /\ sbirPager = [t \in SubTabs |-> {}]

\* the manager's fields when its section is not on the page
NOFAsConstructed ==
    /\ nofasData = << >>
    /\ nofasFilteredData = << >>
    /\ nofasCurrentPage = 1
    /\ nofasInputs = EmptyNofasInputs
    /\ nofasPager = {}

------------------------------------------------------------------------------
(* Loading: loadGrantsData, loadChallengesData, loadSBIRData, loadNOFAsData *)

\* the loads one page view is followed through
MaxLoads == 2

\* what a fetch comes to: a response with ok set, a response without (a 404),
\* a rejected promise (the network, or a body that is not JSON)
Outcomes == {"ok", "notok", "failed"}

\* a load at its first await: fetch of the generated file
FileFetchSent == [awaits |-> "file", tried |-> << >>, held |-> "none"]

\* a load whose fetch of the file returned ok
LoadedFromFile == [awaits |-> "none", tried |-> << <<"file", "ok">> >>, held |-> "file"]

\* the load after its fetch of tier returned with outcome
Returned(load, tier, outcome) ==
    [load EXCEPT !.tried = Append(@, <<tier, outcome>>)]

\* the load once it has stored the data of tier and run to its end
Stored(load, tier) == [load EXCEPT !.awaits = "none", !.held = tier]

\* getSampleChallenges, getSampleSBIRData, getSampleNOFAsData
SampleChallenges == Snapshot(ChallengeKinds, Len(ChallengeKinds))
SampleSBIRData ==
    [awards        |-> Snapshot(AwardKinds, Len(AwardKinds)),
     companies     |-> Snapshot(CompanyKinds, Len(CompanyKinds)),
     solicitations |-> Snapshot(SolicitationKinds, Len(SolicitationKinds))]
SampleNOFAsData == Snapshot(NofaKinds, Len(NofaKinds))

\* setupEventListeners of app.js runs after the await of the page-ready load
GrantsListening == loads[1].awaits = "none"

\* loadGrantsData resumed by its fetch. There is one source and no test of
\* response.ok: the body of a not-ok response is stored when it parses. A
\* rejection is caught and reported, nothing is stored. The page-ready load
\* (the first) then draws the table; a load that handleAuthChange started
\* draws nothing.
loadGrantsDataResumes(i, outcome) ==
    LET after == Returned(loads[i], "file", outcome) IN
    /\ "grants" \in tabs
    /\ loads[i].awaits = "file"
    /\ \/ /\ outcome \in {"ok", "notok"}      \* response.json() gives an array
          /\ \E fetched \in GrantSnapshots :
                /\ grantsData' = fetched
                /\ filteredGrants' = AllIdx(fetched)
          /\ loads' = [loads EXCEPT ![i] = Stored(after, "file")]
          /\ lastEvent' = "loaded"
       \/ /\ outcome \in {"notok", "failed"}  \* fetch or response.json() rejects
          /\ UNCHANGED <<grantsData, filteredGrants>>
          /\ loads' = [loads EXCEPT ![i] = [after EXCEPT !.awaits = "none"]]
          /\ lastEvent' = "load failed"
    /\ grantsPager' = IF i = 1 THEN updatePagination(Len(filteredGrants'), currentPage)
                      ELSE grantsPager
    /\ UNCHANGED <<currentPage, sortColumn, sortDirection, grantsInputs>>
    /\ UNCHANGED <<now, tabs, authVars, challengesVars, sbirVars, nofasVars>>

\* the elements the module protects: the sections auth.js hides on the page of
\* the grants, the tab contents, tab navigation, tab buttons and statistics
\* the enhanced module hides or disables on a page with tabs
Protected ==
    IF "grants" \in tabs
    THEN {"stats-section", "filters-section", "grants-section"}
    ELSE {"tab-content", "tab-button", "tab-navigation", "stats-section"}

\* document.getElementById('login-screen') and remove(), when there is one
removeLoginScreen(dom) ==
    [dom EXCEPT !.screens = IF @ > 0 THEN @ - 1 ELSE 0]

hideProtectedContent(dom) ==
    removeLoginScreen([dom EXCEPT !.hidden = @ \cup Protected])

\* showProtectedContent that leaves the login screen in the document: what
\* C29 is to tell from showProtectedContent
showProtectedContent_KeepsTheScreen(dom) ==
    [dom EXCEPT !.hidden = @ \ Protected]

showProtectedContent(dom) ==
    removeLoginScreen([dom EXCEPT !.hidden = @ \ Protected])

\* the old screen removed, a new one inserted after the header
showLoginRequired(dom) ==
    [removeLoginScreen(dom) EXCEPT !.screens = @ + 1]

\* the document as the page-ready handler of the module leaves it: the
\* content hidden, the identity widget initialised, or, without the widget,
\* the login screen shown
AuthReady ==
    /\ hiddenContent = Protected
    /\ \/ lastUser = "none" /\ loginScreens = 0
       \/ lastUser = "no widget" /\ loginScreens = 1

\* the document of a user who is logged in
AuthShown ==
    /\ hiddenContent = {}
    /\ loginScreens = 0
    /\ lastUser = "user"

\* the user can reach the controls of the page
ContentShown == hiddenContent = {}

\* handleAuthChange(user) of the init, login and logout events of the identity
\* widget: with a user the content is shown and, on the page of the grants,
\* loadGrantsData is called once more; without, the content is hidden and
\* the login screen shown
handleAuthChange(user) ==
    LET dom == [hidden |-> hiddenContent, screens |-> loginScreens]
        after == IF user THEN showProtectedContent(dom)
                 ELSE showLoginRequired(hideProtectedContent(dom))
    IN
    /\ lastUser # "no widget"
    /\ hiddenContent' = after.hidden
    /\ loginScreens' = after.screens
    /\ lastUser' = IF user THEN "user" ELSE "nobody"
    /\ IF user /\ "grants" \in tabs
       THEN /\ Len(loads) < MaxLoads
            /\ loads' = Append(loads, FileFetchSent)
       ELSE UNCHANGED loads
    /\ lastEvent' = IF user THEN "login" ELSE "logout"
    /\ UNCHANGED <<now, tabs, grantsVars, challengesVars, sbirVars, nofasVars>>

\* the end of loadChallengesData: every challenge matches, the agencies are
\* appended to the options of the agency select, the table is drawn
challengesLoaded(data) ==
    /\ challengesData' = data
    /\ filteredChallenges' = AllIdx(data)
    /\ challengeAgencySelect' = challengeAgencySelect \o challengeAgencies(data)
    /\ challengePager' = updateChallengePagination(Len(data), currentChallengePage)
    /\ lastEvent' = "loaded"
    /\ UNCHANGED <<currentChallengePage, challengeInputs>>
    /\ UNCHANGED <<now, tabs, authVars, grantsVars, sbirVars, nofasVars>>

\* loadChallengesData resumed by its fetch: the file, else the sample
loadChallengesDataResumes(i, outcome) ==
    LET after == Returned(loads[i], "file", outcome) IN
    /\ "challenges" \in tabs
    /\ loads[i].awaits = "file"
    /\ IF outcome = "ok"
       THEN /\ \E fetched \in ChallengeSnapshots : challengesLoaded(fetched)
            /\ loads' = [loads EXCEPT ![i] = Stored(after, "file")]
       ELSE /\ challengesLoaded(SampleChallenges)
            /\ loads' = [loads EXCEPT
                            ![i] = Stored(Returned(after, "sample", "ok"), "sample")]

\* a click on the tab button of the challenges: loadChallengesData is called
\* once more while challengesData is empty
tabButtonClick ==
    /\ "challenges" \in tabs
    /\ ContentShown
    /\ challengesData = << >>
    /\ Len(loads) < MaxLoads
    /\ loads' = Append(loads, FileFetchSent)
    /\ lastEvent' = "tab"
    /\ UNCHANGED <<now, tabs, authVars, grantsVars, challengesVars, sbirVars, nofasVars>>

\* the end of loadSBIRData: every record matches, the three tables are drawn
sbirLoaded(data) ==
    /\ sbirData' = data
    /\ sbirFilteredData' = [t \in SubTabs |-> AllIdx(data[t])]
    /\ sbirPager' = [t \in SubTabs |->
                       sbirUpdatePagination(Len(data[t]), sbirCurrentPage[t])]
    /\ lastEvent' = "loaded"
    /\ UNCHANGED <<sbirCurrentPage, currentSubTab, sbirInputs>>
    /\ UNCHANGED <<now, tabs, authVars, grantsVars, challengesVars, nofasVars>>

\* loadSBIRData resumed by a fetch: the file, else /api/sbir-data, else the
\* sample
loadSBIRDataResumes(i, outcome) ==
    LET tier  == loads[i].awaits
        after == Returned(loads[i], tier, outcome) IN
    /\ "sbir" \in tabs
    /\ tier # "none"
    /\ IF outcome = "ok"
       THEN /\ \E fetched \in SbirSnapshots : sbirLoaded(fetched)
            /\ loads' = [loads EXCEPT ![i] = Stored(after, tier)]
       ELSE IF tier = "file"
       THEN /\ loads' = [loads EXCEPT ![i] = [after EXCEPT !.awaits = "live"]]
            /\ lastEvent' = "fetch"
            /\ UNCHANGED <<now, tabs, authVars, grantsVars, challengesVars, sbirVars, nofasVars>>
       ELSE /\ sbirLoaded(SampleSBIRData)
            /\ loads' = [loads EXCEPT
                            ![i] = Stored(Returned(after, "sample", "ok"), "sample")]

\* the end of loadNOFAsData: every NOFA matches, the table is drawn
nofasLoaded(data) ==
    /\ nofasData' = data
    /\ nofasFilteredData' = AllIdx(data)
    /\ nofasPager' = nofaUpdatePagination(Len(data), nofasCurrentPage)
    /\ lastEvent' = "loaded"
    /\ UNCHANGED <<nofasCurrentPage, nofasInputs>>
    /\ UNCHANGED <<now, tabs, authVars, grantsVars, challengesVars, sbirVars>>

\* loadNOFAsData resumed by a fetch: the file, else /api/nofas-data, else the
\* sample
loadNOFAsDataResumes(i, outcome) ==
    LET tier  == loads[i].awaits
        after == Returned(loads[i], tier, outcome) IN
    /\ "nofas" \in tabs
    /\ tier # "none"
    /\ IF outcome = "ok"
       THEN /\ \E fetched \in NofaSnapshots : nofasLoaded(fetched)
            /\ loads' = [loads EXCEPT ![i] = Stored(after, tier)]
       ELSE IF tier = "file"
       THEN /\ loads' = [loads EXCEPT ![i] = [after EXCEPT !.awaits = "live"]]
            /\ lastEvent' = "fetch"
            /\ UNCHANGED <<now, tabs, authVars, grantsVars, challengesVars, sbirVars, nofasVars>>
       ELSE /\ nofasLoaded(SampleNOFAsData)
            /\ loads' = [loads EXCEPT
                            ![i] = Stored(Returned(after, "sample", "ok"), "sample")]

\* the page-ready handlers have run: listeners set (those of app.js wait for
\* the load), the first fetch sent, nothing loaded yet
InitLoad ==
    /\ now \in ClockChoices
    /\ tabs \in {{"grants"}, {"challenges"}, {"sbir"}, {"nofas"}}
    /\ lastEvent = "ready"
    /\ GrantsGlobals /\ ChallengesGlobals /\ SBIRConstructed /\ NOFAsConstructed
    /\ loads = <<FileFetchSent>>
    /\ AuthReady

\* the fetches return in any order; meanwhile and afterwards the user
\* searches and clears
NextLoad ==
    \/ \E i \in DOMAIN loads : \E outcome \in Outcomes :
          \/ loadGrantsDataResumes(i, outcome)
          \/ loadChallengesDataResumes(i, outcome)
          \/ loadSBIRDataResumes(i, outcome)
          \/ loadNOFAsDataResumes(i, outcome)
    \/ \E user \in BOOLEAN : handleAuthChange(user)
    \/ tabButtonClick
    \/ \E term \in GrantSearchTerms \cup {<< >>} :
          GrantsListening /\ ContentShown /\ GrantsSearch(term)
    \/ GrantsListening /\ ContentShown /\ GrantsClear
    \/ \E term \in ChallengeSearchTerms \cup {<< >>} :
          ContentShown /\ ChallengesSearch(term)
    \/ ContentShown /\ clearChallengeFilters
    \/ \E term \in SbirSearchTerms("awards") \cup {<< >>} :
          ContentShown /\ performSearch("awards", term)
    \/ ContentShown /\ clearFilters("awards")
    \/ \E term \in NofaSearchTerms \cup {<< >>} : ContentShown /\ nofaSearch(term)
    \/ ContentShown /\ clearNofaFilters

\* a page view from the page-ready event on
SpecLoad == InitLoad /\ [][NextLoad]_vars

------------------------------------------------------------------------------
(* Specifications *)

\* a page that holds the grants table alone, its data loaded
InitGrants ==
    /\ now \in ClockChoices
    /\ tabs = {"grants"}
    /\ lastEvent = "load"
    /\ GrantsInit /\ ChallengesGlobals /\ SBIRConstructed /\ NOFAsConstructed
    /\ loads = <<LoadedFromFile>>
    /\ AuthShown

\* the grants page while the user stays logged in
SpecGrants == InitGrants /\ [][NextGrants]_vars

\* the grants page with logins
SpecLogin == InitGrants /\ [][NextLogin]_vars

\* a page that holds the challenges tab alone
InitChallenges ==
    /\ now \in ClockChoices
    /\ tabs = {"challenges"}
    /\ lastEvent = "load"
    /\ GrantsGlobals /\ ChallengesInit /\ SBIRConstructed /\ NOFAsConstructed
    /\ loads = <<LoadedFromFile>>
    /\ AuthShown

SpecChallenges == InitChallenges /\ [][NextChallenges]_vars

\* a page that holds the SBIR tab alone
InitSBIR ==
    /\ now \in ClockChoices
    /\ tabs = {"sbir"}
    /\ lastEvent = "load"
    /\ GrantsGlobals /\ ChallengesGlobals /\ SBIRInit /\ NOFAsConstructed
    /\ loads = <<LoadedFromFile>>
    /\ AuthShown

SpecSBIR == InitSBIR /\ [][NextSBIR]_vars

\* a page that holds the NOFAs tab alone
InitNOFAs ==
    /\ now \in ClockChoices
    /\ tabs = {"nofas"}
    /\ lastEvent = "load"
    /\ GrantsGlobals /\ ChallengesGlobals /\ SBIRConstructed /\ NOFAsInit
    /\ loads = <<LoadedFromFile>>
    /\ AuthShown

SpecNOFAs == InitNOFAs /\ [][NextNOFAs]_vars

\* any of the four pages, the user staying logged in
Init == InitGrants \/ InitChallenges \/ InitSBIR \/ InitNOFAs

Next == NextGrants \/ NextChallenges \/ NextSBIR \/ NextNOFAs

Spec == Init /\ [][Next]_vars

\* the four pages with, besides, a header on the grants table and one on the
\* NOFA table whose data-sort value names no field
NextSort == Next \/ sortTable(UnknownColumn) \/ nofaSortTable(UnknownColumn)

SpecSort == Init /\ [][NextSort]_vars

-----------------------------------------------------------------------------
(* Properties: what the specification of the query engine says of the pages *)

Range(seq) == {seq[i] : i \in DOMAIN seq}

\* the records a sequence of positions stands for are all the records of data
HoldsAll(filtered, data) == Range(filtered) = DOMAIN data

\* two characters that are one letter, whatever their case
SameLetter(c, d) ==
    \/ c = d
    \/ \E n \in DOMAIN UpperChars : {c, d} = {UpperChars[n], LowerChars[n]}

\* text contains term, the case of the letters set aside
ContainsIgnoringCase(text, term) ==
    \E k \in 0..(Len(text) - Len(term)) :
       \A j \in 1..Len(term) : SameLetter(text[k + j], term[j])

\* the pages a count of matching records fills, an empty table counting as one
PagesOf(count, perPage) == Max(1, Ceil(count, perPage))

\* C1 (the records a later filter value must not lose): in every state, every
\* record of the loaded collection that contains the current search term in one
\* of its searchable fields and satisfies every filter that is active now is
\* among the matching records, whatever values the filters held earlier; this
\* on the grants page, the challenges tab, each SBIR sub-tab and the NOFAs tab.
C1_MatchingIsRecomputedFromFullCollection ==
    /\ \A i \in DOMAIN grantsData :
          (/\ matchesSearch(grantsData[i], toLowerCase(grantsInputs.search))
           /\ grantPasses(grantsData[i], grantsInputs, now))
          => i \in Range(filteredGrants)
    /\ \A i \in DOMAIN challengesData :
          (/\ Has(challengesData[i].title) /\ Has(challengesData[i].agency)
           /\ challengePasses(challengesData[i], challengeInputs))
          => i \in Range(filteredChallenges)
    /\ \A type \in SubTabs : \A i \in DOMAIN sbirData[type] :
          (/\ sbirMatchesSearch(type, sbirData[type][i],
                                trim(toLowerCase(sbirInputs[type].search)))
           /\ sbirPassesFilters(type, sbirData[type][i], sbirInputs[type]))
          => i \in Range(sbirFilteredData[type])
    /\ \A i \in DOMAIN nofasData :
          (/\ nofaMatchesSearch(nofasData[i], trim(toLowerCase(nofasInputs.search)))
           /\ nofaPassesFilters(nofasData[i], nofasInputs, now))
          => i \in Range(nofasFilteredData)

\* C2 (empty-filter identity): once a filter control has been set back to its
\* empty value and no control of the collection holds a value, every record of
\* the collection is among the matching records, as if the filter had never
\* been set.
C2_EmptyFilterIdentity ==
    lastEvent = "filter" =>
       /\ ("grants" \in tabs /\ grantsInputs = EmptyGrantsInputs)
             => HoldsAll(filteredGrants, grantsData)
       /\ ("challenges" \in tabs /\ challengeInputs = EmptyChallengeInputs)
             => HoldsAll(filteredChallenges, challengesData)
       /\ ("sbir" \in tabs /\ sbirInputs[currentSubTab] = EmptySbirInputs[currentSubTab])
             => HoldsAll(sbirFilteredData[currentSubTab], sbirData[currentSubTab])
       /\ ("nofas" \in tabs /\ nofasInputs = EmptyNofasInputs)
             => HoldsAll(nofasFilteredData, nofasData)

\* C3 (the empty search term): once a search has run with an empty term and no
\* filter active, every record of the collection is among the matching
\* records, the records whose searchable fields are all absent included.
C3_EmptySearchKeepsEveryRecord ==
    lastEvent = "search" =>
       /\ ("grants" \in tabs /\ grantsInputs = EmptyGrantsInputs)
             => HoldsAll(filteredGrants, grantsData)
       /\ ("challenges" \in tabs /\ challengeInputs = EmptyChallengeInputs)
             => HoldsAll(filteredChallenges, challengesData)
       /\ ("sbir" \in tabs /\ sbirInputs[currentSubTab] = EmptySbirInputs[currentSubTab])
             => HoldsAll(sbirFilteredData[currentSubTab], sbirData[currentSubTab])
       /\ ("nofas" \in tabs /\ nofasInputs = EmptyNofasInputs)
             => HoldsAll(nofasFilteredData, nofasData)

\* the search stage of the grants, as the claim C4 words it
GrantSearchStage(grant, term) ==
    \E f \in {"title", "agency", "description", "opportunity_number"} :
       Has(grant[f]) /\ ContainsIgnoringCase(Val(grant[f]), term)

\* C4 (grants search): once filterGrants has run with a non-empty search term
\* T, the matching records are exactly the grants of which the title, the
\* agency, the description or the opportunity number is present and contains T,
\* the case of the letters set aside, and which pass every other active filter.
C4_GrantSearchIsAnyFieldContains ==
    ("grants" \in tabs /\ lastEvent \in {"search", "filter"}
                      /\ grantsInputs.search # << >>) =>
       Range(filteredGrants) =
          {i \in DOMAIN grantsData :
              /\ GrantSearchStage(grantsData[i], grantsInputs.search)
              /\ grantPasses(grantsData[i],
                             [grantsInputs EXCEPT !.search = << >>], now)}

\* C4 happens: a search for "cyb" with the agency filter on NSF has kept a
\* grant without title for its description "CYBER", and has dropped others
C4_Witness ==
    /\ lastEvent = "filter"
    /\ grantsInputs.search = <<"c","y","b">>
    /\ grantsInputs.agency = sNSF
    /\ \E i \in Range(filteredGrants) :
          ~Has(grantsData[i].title) /\ grantsData[i].description = {sCYBER}
    /\ \E i \in DOMAIN grantsData : i \notin Range(filteredGrants)

\* the six bounded buckets of the grants funding filter
StandardBuckets == FundingRanges \ {"unspecified"}

\* C5 (bucket exclusivity, grants): every loaded grant whose award_ceiling is
\* a number, 0 included, satisfies exactly one of the six standard buckets.
C5_NumericCeilingInExactlyOneBucket ==
    \A i \in DOMAIN grantsData :
       Has(grantsData[i].award_ceiling) =>
          Cardinality({b \in StandardBuckets :
                          matchesFundingRange(grantsData[i], b)}) = 1

\* C6 (missing numeric values): in every bucket filter of every collection a
\* loaded record whose numeric field is missing matches no bounded bucket.
C6_MissingMatchesNoBoundedBucket ==
    /\ \A i \in DOMAIN grantsData : \A b \in StandardBuckets :
          ~Has(grantsData[i].award_ceiling) => ~matchesFundingRange(grantsData[i], b)
    /\ \A i \in DOMAIN challengesData : \A b \in PrizeRanges :
          ~Has(challengesData[i].prize_total) => ~matchesPrize(challengesData[i], b)
    /\ \A i \in DOMAIN sbirData.companies :
          LET company == sbirData.companies[i] IN
          /\ \A b \in SbirFundingRanges :
                ~Has(company.total_funding)
                   => ~sbirMatchesFundingRange(company.total_funding, b)
          /\ \A b \in SbirAwardsRanges :
                ~Has(company.total_awards)
                   => ~matchesAwardsRange(company.total_awards, b)
          /\ \A b \in SbirEmployeesRanges :
                ~Has(company.employees)
                   => ~matchesEmployeesRange(company.employees, b)
    /\ \A i \in DOMAIN nofasData : \A b \in NofaFundingRanges \ {"unspecified"} :
          ~Has(nofasData[i].funding_amount)
             => ~nofaMatchesFundingRange(nofasData[i].funding_amount, b)

\* C7 (grants funding filter): once the funding filter alone has been set,
\* 'under-100k' shows exactly the grants with a present award_ceiling below
\* 100000 and 'unspecified' shows exactly the grants without award_ceiling.
C7_Under100kAndUnspecifiedAreExact ==
    ("grants" \in tabs /\ lastEvent = "filter") =>
       /\ grantsInputs = [EmptyGrantsInputs EXCEPT !.funding = "under-100k"]
             => Range(filteredGrants) =
                   {i \in DOMAIN grantsData :
                       /\ Has(grantsData[i].award_ceiling)
                       /\ Val(grantsData[i].award_ceiling) < 100000}
       /\ grantsInputs = [EmptyGrantsInputs EXCEPT !.funding = "unspecified"]
             => Range(filteredGrants) =
                   {i \in DOMAIN grantsData : ~Has(grantsData[i].award_ceiling)}

\* a present value matches at most one bucket of a family, and at least one
\* when it is positive; Hits is the set of the buckets it matches
OneBucket(value, Hits) ==
    Has(value) => /\ Cardinality(Hits) <= 1
                  /\ Val(value) > 0 => Cardinality(Hits) >= 1

\* C8 (inclusive lower, exclusive upper bounds): in the bucket families of the
\* challenge prize, the SBIR funding, award count and employees, and the NOFA
\* funding, no present value of a loaded record matches two buckets and every
\* present positive value matches at least one.
C8_BucketsDoNotOverlap ==
    /\ \A i \in DOMAIN challengesData :
          OneBucket(challengesData[i].prize_total,
                    {b \in PrizeRanges : matchesPrize(challengesData[i], b)})
    /\ \A i \in DOMAIN sbirData.companies :
          LET company == sbirData.companies[i] IN
          /\ OneBucket(company.total_funding,
                       {b \in SbirFundingRanges :
                           sbirMatchesFundingRange(company.total_funding, b)})
          /\ OneBucket(company.total_awards,
                       {b \in SbirAwardsRanges :
                           matchesAwardsRange(company.total_awards, b)})
          /\ OneBucket(company.employees,
                       {b \in SbirEmployeesRanges :
                           matchesEmployeesRange(company.employees, b)})
    /\ \A i \in DOMAIN nofasData :
          OneBucket(nofasData[i].funding_amount,
                    {b \in NofaFundingRanges :
                        nofaMatchesFundingRange(nofasData[i].funding_amount, b)})

\* the page the collection on screen shows
ShownPage ==
    CASE "grants" \in tabs     -> currentPage
      [] "challenges" \in tabs -> currentChallengePage
      [] "sbir" \in tabs       -> sbirCurrentPage[currentSubTab]
      [] "nofas" \in tabs      -> nofasCurrentPage

\* C9 (every transition but a page change shows page 1): after a search, a
\* filter change, a clear or a sort, the current page of the collection on
\* screen is 1; a table sorted while it shows page k > 1 is back at page 1.
C9_EveryQueryTransitionShowsPageOne ==
    lastEvent \in {"search", "filter", "clear", "sort"} => ShownPage = 1

\* C10 (the page within the pages): in every state of every collection the
\* current page lies between 1 and the number of pages the matching records
\* fill (1 when there is none).
C10_PageWithinPages ==
    /\ currentPage \in 1..PagesOf(Len(filteredGrants), itemsPerPage)
    /\ currentChallengePage \in 1..PagesOf(Len(filteredChallenges), challengeItemsPerPage)
    /\ \A type \in SubTabs :
          sbirCurrentPage[type] \in 1..PagesOf(Len(sbirFilteredData[type]), sbirItemsPerPage)
    /\ nofasCurrentPage \in 1..PagesOf(Len(nofasFilteredData), nofasItemsPerPage)

\* the pages 1..p of a sequence of matching records, one after the other
RECURSIVE PagesUpTo(_, _, _)
PagesUpTo(filtered, p, perPage) ==
    IF p = 0 THEN << >>
    ELSE PagesUpTo(filtered, p - 1, perPage) \o pageSlice(filtered, p, perPage)

\* the pages of a sequence of matching records, concatenated, are the sequence
AllPagesCover(filtered, perPage) ==
    PagesUpTo(filtered, Ceil(Len(filtered), perPage), perPage) = filtered

\* the page sizes the windows are tried with: the tables' own and small ones
PageSizes == {1, 2, 3, itemsPerPage}

\* C11 (pagination coverage): in every state, for the matching records of
\* every collection and every page size, the windows of the pages 1 to
\* ceil(n / pageSize), concatenated in order, are the matching records: no
\* record twice, none left out.
C11_PagesCoverTheMatchingRecords ==
    \A perPage \in PageSizes :
       /\ AllPagesCover(filteredGrants, perPage)
       /\ AllPagesCover(filteredChallenges, perPage)
       /\ \A type \in SubTabs : AllPagesCover(sbirFilteredData[type], perPage)
       /\ AllPagesCover(nofasFilteredData, perPage)

\* C11 happens: a table shows the second of two pages, the last one holding
\* a single record
C11_Witness ==
    /\ ShownPage = 2
    /\ \/ Len(filteredGrants) = itemsPerPage + 1
       \/ Len(sbirFilteredData.awards) = sbirItemsPerPage + 1

\* the grants shown are in the order of the comparator of sortTable for a key
\* and a direction
GrantsOrderedBy(column, direction) ==
    \A i, j \in DOMAIN filteredGrants :
       i < j => compareGrants(grantsData[filteredGrants[i]],
                              grantsData[filteredGrants[j]], column, direction) <= 0

\* C12 (the order agrees with the recorded sort key): whenever a sort key is
\* recorded, the matching grants are in the order of that key and direction,
\* after a search, a filter change or a clear as after the sort itself.
C12_MatchingRecordsStaySorted ==
    sortColumn # "" => GrantsOrderedBy(sortColumn, sortDirection)

\* the columns that hold dates and those that hold numbers
DateColumns == {"close_date", "posted_date", "publication_date", "effective_date"}
NumericColumns == {"award_ceiling", "total_funding", "funding_amount"}

\* a date that is present and that Date can parse
ValidDate(o) == Has(o) /\ Val(o).valid

\* the ascending order C13 words: negative when a goes before b, positive when
\* it goes after, 0 when the two are tied
ClaimedCompare(a, b, column) ==
    IF column \in DateColumns
    THEN IF ValidDate(a[column]) /\ ValidDate(b[column])
         THEN Val(a[column]).day - Val(b[column]).day
         ELSE IF ValidDate(a[column]) THEN -1
         ELSE IF ValidDate(b[column]) THEN 1 ELSE 0
    ELSE IF column \in NumericColumns
    THEN (IF Has(a[column]) THEN Val(a[column]) ELSE 0)
         - (IF Has(b[column]) THEN Val(b[column]) ELSE 0)
    ELSE LET aText == toLowerCase(OrEmpty(a[column]))
             bText == toLowerCase(OrEmpty(b[column]))
         IN  IF StrLess(aText, bText) THEN -1
             ELSE IF StrLess(bText, aText) THEN 1 ELSE 0

\* the records shown are in the order C13 words for a column and a direction;
\* of a descending sort by date, only the records with a valid date are looked at
OrderedAsClaimed(data, filtered, column, direction) ==
    \A i, j \in DOMAIN filtered :
       LET a == data[filtered[i]]
           b == data[filtered[j]]
       IN  i < j =>
              IF direction = "asc" THEN ClaimedCompare(a, b, column) <= 0
              ELSE \/ column \in DateColumns
                      /\ ~(ValidDate(a[column]) /\ ValidDate(b[column]))
                   \/ ClaimedCompare(a, b, column) >= 0

\* C13 (the order of a sort): a sort of the grants leaves them in the order of
\* the recorded column and direction, and a sort of the NOFAs by a column
\* leaves them in ascending order of that column, where a record without a
\* valid date goes after those with one, an absent number counts as 0 and any
\* other value is compared as text, its case set aside.
C13_SortOrdersAsClaimed ==
    [][/\ ("grants" \in tabs /\ lastEvent' = "sort")
            => OrderedAsClaimed(grantsData', filteredGrants', sortColumn',
                                sortDirection')
       /\ \A column \in NofaSortColumns :
             nofaSortTable(column)
                => OrderedAsClaimed(nofasData', nofasFilteredData', column, "asc")
      ]_vars

\* the place of record x in a sequence that holds it once
PlaceOf(seq, x) == CHOOSE k \in DOMAIN seq : seq[k] = x

\* every two records of first that are not tied on column stand the other way
\* round in second
ReversedPairs(data, first, second, column) ==
    \A i, j \in DOMAIN first :
       (i < j /\ ClaimedCompare(data[first[i]], data[first[j]], column) # 0)
          => PlaceOf(second, first[i]) > PlaceOf(second, first[j])

\* C14 (sort round trip), grants: a second click on the header the grants were
\* just sorted by ascending reverses every pair that is not tied
GrantsSecondClickReverses ==
    ("grants" \in tabs /\ lastEvent = "sort" /\ sortDirection = "asc"
        /\ sortTable(sortColumn))
       => ReversedPairs(grantsData, filteredGrants, filteredGrants', sortColumn)

\* C14, NOFAs: what a second click on the same header computes from the order
\* the first click left reverses every pair that is not tied
NofasSecondClickReverses ==
    \A column \in NofaSortColumns :
       nofaSortTable(column)
          => ReversedPairs(nofasData, nofasFilteredData',
                           StableSort(nofasFilteredData',
                                      LAMBDA i, j : compareNofas(nofasData[i],
                                                                 nofasData[j], column)),
                           column)

\* C14 (sort round trip): sorting by a column and then clicking the same
\* header again reverses the order of every two records whose values in that
\* column are not tied, in the grants table and in the NOFAs table.
C14_SecondClickReverses ==
    [][GrantsSecondClickReverses /\ NofasSecondClickReverses]_vars

\* C15 (clear): after a click on a collection's clear button the search box
\* and every filter of that collection are empty, its matching records are
\* the whole loaded collection and its page is 1.
C15_ClearResetsTheQuery ==
    lastEvent = "clear" =>
       /\ "grants" \in tabs =>
             /\ grantsInputs = EmptyGrantsInputs
             /\ filteredGrants = AllIdx(grantsData)
             /\ currentPage = 1
       /\ "challenges" \in tabs =>
             /\ challengeInputs = EmptyChallengeInputs
             /\ filteredChallenges = AllIdx(challengesData)
             /\ currentChallengePage = 1
       /\ "sbir" \in tabs =>
             /\ sbirInputs[currentSubTab] = EmptySbirInputs[currentSubTab]
             /\ sbirFilteredData[currentSubTab] = AllIdx(sbirData[currentSubTab])
             /\ sbirCurrentPage[currentSubTab] = 1
       /\ "nofas" \in tabs =>
             /\ nofasInputs = EmptyNofasInputs
             /\ nofasFilteredData = AllIdx(nofasData)
             /\ nofasCurrentPage = 1

\* a clear of the grants after they were sorted by title
C15_Witness ==
    /\ "grants" \in tabs
    /\ lastEvent = "clear"
    /\ sortColumn = "title"
    /\ Len(grantsData) > itemsPerPage
    /\ filteredGrants = AllIdx(grantsData)

\* the key field of a record is the name, case set aside
NamedLike(o, name) == Has(o) /\ toLowerCase(Val(o)) = toLowerCase(name)

\* no company, no award, carries the name in its key field
NoCompanyNamed(name) ==
    \A j \in DOMAIN sbirData.companies : ~NamedLike(sbirData.companies[j].firm_name, name)
NoAwardNamed(name) ==
    \A j \in DOMAIN sbirData.awards : ~NamedLike(sbirData.awards[j].firm, name)

\* C16, award -> company: a company link whose name no company carries is
\* answered with the notice and nothing of the SBIR tab changes
CompanyLinkNotFound ==
    \A row \in DOMAIN sbirData.awards :
       (showCompanyFromName(row) /\ NoCompanyNamed(OrEmpty(sbirData.awards[row].firm)))
          => (lastEvent' = "not found" /\ UNCHANGED sbirVars)

\* C16, company -> awards: the same of the awards button of a company whose
\* name no award carries
AwardsLinkNotFound ==
    \A row \in DOMAIN sbirData.companies :
       (showAwardsForCompany(row)
           /\ NoAwardNamed(OrEmpty(sbirData.companies[row].firm_name)))
          => (lastEvent' = "not found" /\ UNCHANGED sbirVars)

\* C16 (cross-reference, not found): when no record of the target collection
\* has a key field equal to the name of the link, case set aside, the user is
\* told so and the open sub-tab, the target's search box, filters, matching
\* records and page stay as they were; so for the company link of an award
\* and for the awards button of a company.
C16_NotFoundLeavesTheViewUnchanged ==
    [][CompanyLinkNotFound /\ AwardsLinkNotFound]_vars

\* the sub-tab a cross-reference link leads to
LinkTarget == IF lastEvent = "company link" THEN "companies" ELSE "awards"

\* the key field of a record of the target
KeyField(type, record) == IF type = "companies" THEN record.firm_name ELSE record.firm

\* C17 (cross-reference, found): after a link that found its record the open
\* sub-tab is the target, the target's filters are empty and its search box
\* holds the name alone, its page is 1 and its matching records hold every
\* record whose key field equals the name, case set aside.
C17_LinkShowsTheNamedRecords ==
    LET name == sbirInputs[LinkTarget].search IN
    (/\ lastEvent \in {"company link", "awards link"}
     /\ \E j \in DOMAIN sbirData[LinkTarget] :
           NamedLike(KeyField(LinkTarget, sbirData[LinkTarget][j]), name))
       => /\ currentSubTab = LinkTarget
          /\ sbirInputs[LinkTarget] = [EmptySbirInputs[LinkTarget] EXCEPT !.search = name]
          /\ sbirCurrentPage[LinkTarget] = 1
          /\ \A j \in DOMAIN sbirData[LinkTarget] :
                NamedLike(KeyField(LinkTarget, sbirData[LinkTarget][j]), name)
                   => j \in Range(sbirFilteredData[LinkTarget])

\* a company link has led to the companies, narrowed to the named company
C17_Witness ==
    /\ lastEvent = "company link"
    /\ currentSubTab = "companies"
    /\ sbirInputs.companies.search # << >>
    /\ sbirFilteredData.companies # << >>
    /\ Len(sbirFilteredData.companies) < Len(sbirData.companies)

\* the order C18 gives the sources
TierOrder == <<"file", "live", "sample">>

\* a load went through the sources as C18 words it: the sources tried are the
\* first of TierOrder, in that order; each but the last tried failed or was
\* not ok; a load that has ended tried a source that was ok last and stored
\* the data of that source; a load that has not ended awaits the next source
LoadFollowsTheTiers(load) ==
    LET n == Len(load.tried) IN
    /\ n <= Len(TierOrder)
    /\ \A k \in 1..n : load.tried[k][1] = TierOrder[k]
    /\ \A k \in 1..(n - 1) : load.tried[k][2] # "ok"
    /\ IF load.awaits = "none"
       THEN n >= 1 /\ load.tried[n][2] = "ok" /\ load.held = load.tried[n][1]
       ELSE /\ n < Len(TierOrder) /\ load.awaits = TierOrder[n + 1]
            /\ load.held = "none"
            /\ (n >= 1 => load.tried[n][2] # "ok")

\* C18 (fallback order): every load of every collection tries the generated
\* file, then the live endpoint, then the sample, a later source only after
\* the one before it failed or was not ok, and stores the data of the first
\* source that was ok.
C18_LoadsFollowTheTiers ==
    \A i \in DOMAIN loads : LoadFollowsTheTiers(loads[i])

\* a step leaves a collection that holds records as it is
KeepsLoadedCollections ==
    /\ grantsData # << >> => grantsData' = grantsData
    /\ challengesData # << >> => challengesData' = challengesData
    /\ (\E t \in SubTabs : sbirData[t] # << >>) => sbirData' = sbirData
    /\ nofasData # << >> => nofasData' = nofasData

\* C19 (one load per page view): no event starts a second load of the
\* collection of the page, and no step replaces a collection that is loaded.
C19_OneLoadPerPageView ==
    [][Len(loads') <= 1 /\ KeepsLoadedCollections]_vars

\* a load of the page's collection has not ended
LoadInFlight == \E i \in DOMAIN loads : loads[i].awaits # "none"

\* the matching records of the page's collection are those its search box and
\* filters select: all of them when the controls are empty, else what the
\* search of the collection computes
MatchingAgreesWithControls ==
    /\ "grants" \in tabs =>
          filteredGrants = IF grantsInputs = EmptyGrantsInputs THEN AllIdx(grantsData)
                           ELSE filterGrantsResult(grantsData, grantsInputs, now)
    /\ "challenges" \in tabs =>
          \/ filterChallengesThrows(challengesData, challengeInputs)
          \/ filteredChallenges =
                IF challengeInputs = EmptyChallengeInputs THEN AllIdx(challengesData)
                ELSE filterChallengesResult(challengesData, challengeInputs)
    /\ "sbir" \in tabs =>
          \A t \in SubTabs :
             sbirFilteredData[t] =
                IF sbirInputs[t] = EmptySbirInputs[t] THEN AllIdx(sbirData[t])
                ELSE sbirPerformSearch(t, sbirData, sbirInputs[t])
    /\ "nofas" \in tabs =>
          nofasFilteredData = IF nofasInputs = EmptyNofasInputs THEN AllIdx(nofasData)
                              ELSE nofaPerformSearch(nofasData, nofasInputs, now)

\* C20 (no query before the load ends): while a load is in flight no search,
\* filter, page or sort event is handled, and when a load ends the matching
\* records are those the search box and the filters select.
C20_QueryWaitsForTheLoad ==
    [][/\ LoadInFlight => lastEvent' \notin {"search", "filter", "page", "sort"}
       /\ lastEvent' = "loaded" => MatchingAgreesWithControls'
      ]_vars

\* the distinct values of a column that are neither absent nor empty
DistinctNonEmpty(column) ==
    {Val(column[i]) : i \in {j \in DOMAIN column : TruthyStr(column[j])}}

\* options lists exactly the values, each once, in ascending order
ListsEachOnceSorted(options, values) ==
    /\ \A k \in DOMAIN options : Has(options[k]) /\ Val(options[k]) \in values
    /\ \A v \in values : \E k \in DOMAIN options : options[k] = {v}
    /\ \A k \in 1..(Len(options) - 1) : StrLess(Val(options[k]), Val(options[k + 1]))

GrantOptionsAsClaimed ==
    \A f \in {"agency", "category", "status"} :
       ListsEachOnceSorted(grantOptions(grantsData, f),
                           DistinctNonEmpty(fieldColumn(grantsData, f)))

ChallengeOptionsAsClaimed ==
    /\ ListsEachOnceSorted(challengeAgencySelect,
                           DistinctNonEmpty(fieldColumn(challengesData, "agency")))
    /\ ListsEachOnceSorted(challengeTypes(challengesData),
                           DistinctNonEmpty(fieldColumn(challengesData, "challenge_type")))

SbirOptionsAsClaimed ==
    ListsEachOnceSorted(sbirStateList(sbirData),
                        DistinctNonEmpty(fieldColumn(sbirData.awards, "company_state"))
                        \cup DistinctNonEmpty(fieldColumn(sbirData.companies, "state")))

NofaOptionsAsClaimed ==
    ListsEachOnceSorted(nofaAgencyList(nofasData),
                        DistinctNonEmpty(fieldColumn(nofasData, "agency")))

\* C21 (filter options): the options built from a field of the loaded
\* collection are the distinct values of the field that are neither absent
\* nor empty, each once, in ascending order.
C21_OptionsAreTheDistinctValues ==
    /\ "grants" \in tabs => GrantOptionsAsClaimed
    /\ "challenges" \in tabs => ChallengeOptionsAsClaimed
    /\ "sbir" \in tabs => SbirOptionsAsClaimed
    /\ "nofas" \in tabs => NofaOptionsAsClaimed

\* the day of the clock
Today == now \div 24

\* the date is valid and lies in the window of days [today - windowDays, today]
InWindow(o, windowDays) ==
    /\ ValidDate(o)
    /\ Val(o).day >= Today - windowDays
    /\ Val(o).day <= Today

\* C22 (relative date window): the publication-date filter of the NOFAs
\* matches a NOFA iff its publication date lies in the window of days that
\* ends today, both ends included; a NOFA dated the first day of the window
\* matches; the NOFAs shown while the filter is set all lie in the window.
C22_DateWindowIsClosedAtBothEnds ==
    "nofas" \in tabs =>
       /\ \A i \in DOMAIN nofasData : \A range \in NofaDateRanges :
             nofaMatchesDate(nofasData[i], range, now)
                <=> InWindow(nofasData[i].publication_date, nofaCutoffDays(range))
       /\ \A range \in NofaDateRanges :
             nofaMatchesDate(
                [publication_date |-> {DateStr(Today - nofaCutoffDays(range))}],
                range, now)
       /\ nofasInputs.date # "" =>
             \A k \in DOMAIN nofasFilteredData :
                InWindow(nofasData[nofasFilteredData[k]].publication_date,
                         nofaCutoffDays(nofasInputs.date))

\* C23, grants: under a deadline filter every grant shown has a valid close
\* date
GrantsShownHaveADeadline ==
    ("grants" \in tabs /\ grantsInputs.deadline # "") =>
       \A k \in DOMAIN filteredGrants : ValidDate(grantsData[filteredGrants[k]].close_date)

\* C23, NOFAs by publication date
NofasShownHaveADate ==
    ("nofas" \in tabs /\ nofasInputs.date # "") =>
       \A k \in DOMAIN nofasFilteredData :
          ValidDate(nofasData[nofasFilteredData[k]].publication_date)

\* C23, NOFAs by deadline: no NOFA shown is without a deadline
NofasShownHaveADeadline ==
    ("nofas" \in tabs /\ nofasInputs.deadline # "") =>
       \A k \in DOMAIN nofasFilteredData :
          TruthyStr(nofasData[nofasFilteredData[k]].application_deadline)

\* C23 (absent dates under a window filter): while a relative-window filter
\* is set (the deadline of the grants, the publication date or the deadline
\* of the NOFAs), no record shown is without the date or with a date that
\* does not parse.
C23_NoRecordWithoutDateUnderAWindow ==
    GrantsShownHaveADeadline /\ NofasShownHaveADate /\ NofasShownHaveADeadline

\* the boolean a token of a boolean filter stands for
BooleanOf(token) == token \in {"yes", "true"}

\* C24, grants: the cost-sharing filter alone passes a grant iff its field is
\* exactly the boolean of the filter, and under the filter only such grants
\* are shown
CostSharingIsStrict ==
    "grants" \in tabs =>
       /\ \A i \in DOMAIN grantsData : \A token \in {"yes", "no"} :
             grantPasses(grantsData[i],
                         [EmptyGrantsInputs EXCEPT !.costshare = token], now)
                <=> grantsData[i].cost_sharing = {BooleanOf(token)}
       /\ \A i \in DOMAIN grantsData : grantPasses(grantsData[i], EmptyGrantsInputs, now)
       /\ grantsInputs.costshare # "" =>
             \A k \in DOMAIN filteredGrants :
                grantsData[filteredGrants[k]].cost_sharing
                   = {BooleanOf(grantsInputs.costshare)}

\* C24, NOFAs: the same of the significance filter
SignificantIsStrict ==
    "nofas" \in tabs =>
       /\ \A i \in DOMAIN nofasData : \A token \in {"true", "false"} :
             nofaPassesFilters(nofasData[i],
                               [EmptyNofasInputs EXCEPT !.significant = token], now)
                <=> nofasData[i].significant = {BooleanOf(token)}
       /\ \A i \in DOMAIN nofasData :
             nofaPassesFilters(nofasData[i], EmptyNofasInputs, now)
       /\ nofasInputs.significant # "" =>
             \A k \in DOMAIN nofasFilteredData :
                nofasData[nofasFilteredData[k]].significant
                   = {BooleanOf(nofasInputs.significant)}

\* C24 (boolean filters): the cost-sharing filter of the grants and the
\* significance filter of the NOFAs match a record iff its field is exactly
\* the boolean chosen; unset, they pass every record.
C24_BooleanFiltersAreStrict == CostSharingIsStrict /\ SignificantIsStrict

\* a sort requested on a column that is no field of the collection
SortOnUnknownField == sortTable(UnknownColumn) \/ nofaSortTable(UnknownColumn)

\* C25 (unknown field): a sort on a field that is not a field of the collection
\* fails and leaves the query state and the matching records as they were, and
\* no other operation fails.
C25_UnknownFieldFailsAndChangesNothing ==
    [][ /\ SortOnUnknownField =>
             /\ lastEvent' = "error"
             /\ UNCHANGED <<sortColumn, sortDirection, currentPage, filteredGrants,
                            nofasCurrentPage, nofasFilteredData>>
        /\ lastEvent' \in {"error", "export error"} => SortOnUnknownField ]_vars

\* C26 (total operations): no search, filter, sort, page change or
\* cross-reference on a loaded collection ends in an error, whatever fields
\* the records lack.
C26_NoOperationRaises == lastEvent # "error"

\* what the operations of the query engines leave in lastEvent
QueryEvents ==
    {"search", "filter", "clear", "sort", "page", "export", "nothing to export",
     "export error", "error", "subtab", "agency link", "company link",
     "awards link", "not found"}

\* C27 (read-only collections): no search, filter, sort, page change, clear,
\* export or cross-reference changes the contents or the order of grantsData,
\* challengesData, sbirData or nofasData.
C27_CollectionsAreReadOnly ==
    [][ lastEvent' \in QueryEvents =>
           UNCHANGED <<grantsData, challengesData, sbirData, nofasData>> ]_vars

\* a sort has put the matching grants in another order than the collection's
C27_Witness ==
    /\ "grants" \in tabs
    /\ lastEvent = "sort"
    /\ grantsData \in GrantSnapshots
    /\ \E k \in 1..(Len(filteredGrants) - 1) : filteredGrants[k] > filteredGrants[k + 1]

\* the operations C28 speaks of: search, filter, clear, page change
OwnEvents == {"search", "filter", "clear", "page"}

\* the matching records and the current page of each collection
GrantsView     == <<filteredGrants, currentPage>>
ChallengesView == <<filteredChallenges, currentChallengePage>>
NofasView      == <<nofasFilteredData, nofasCurrentPage>>
SbirView(type) == <<sbirFilteredData[type], sbirCurrentPage[type]>>

C29_ContentFollowsTheLastIdentityEvent ==
    /\ lastUser = "user" => hiddenContent \cap Protected = {} /\ loginScreens = 0
    /\ lastUser = "nobody" => Protected \subseteq hiddenContent /\ loginScreens = 1
    /\ loginScreens <= 1

\* a user who logged in on the page of the grants has logged out
C29_Witness ==
    /\ "grants" \in tabs
    /\ lastEvent = "logout"
    /\ lastUser = "nobody"
    /\ Len(loads) > 1

\* C30 (agency options): whatever loads of the challenges have run, the agency
\* select lists each distinct agency of the challenges exactly once.
C30_EachAgencyListedOnce ==
    "challenges" \in tabs =>
       \A agency \in FieldValues(challengesData, "agency") :
          Cardinality({i \in DOMAIN challengeAgencySelect :
                          challengeAgencySelect[i] = {agency}}) = 1

=============================================================================
